---- MODULE Spec2Model ----
(***************************************************************************)
(* A model of goai-kit's agent tool-calling loop (kit.Agent.Invoke,        *)
(* executeLoop, executeToolCalls) and of the callback manager that assigns *)
(* run ids and broadcasts lifecycle events (callback.Manager).             *)
(*                                                                         *)
(* One behaviour is one agent: its construction, optional builder calls,   *)
(* and one Invoke.  The remote completion endpoint and the tool executors  *)
(* are external collaborators: what they return is chosen                  *)
(* nondeterministically from small sets.  Invoke is split at its two       *)
(* blocking points, the remote completion call and each tool's Execute.    *)
(***************************************************************************)
EXTENDS Integers, Sequences, FiniteSets, TLC

(***************************************************************************)
(* Bounds of the exploration.                                              *)
(***************************************************************************)
\* largest iteration cap given to WithMaxIterations / InvokeConfig.MaxIterations
MaxCap == 2
\* largest number of tool calls carried by one completion response
MaxToolCalls == 2
\* largest number of tool calls the endpoint asks for during one invocation
MaxTotalToolCalls == 3

(***************************************************************************)
(* Program constants.                                                      *)
(***************************************************************************)
\* CreateAgentWithOutput: maxIterations: 10
DefaultMaxIterations == 10

(***************************************************************************)
(* Value domains.                                                          *)
(***************************************************************************)
\* A Go pointer that may be nil is a sequence of length 0 (nil) or 1.
Nil == <<>>
Ptr(v) == <<v>>
Deref(p) == p[1]

\* a key that is absent from an event context
NoID == -1
NoStr == ""

\* a run id of an enclosing run, handed in by the caller as ParentRunID
CallerRunID == 0

\* the tool-call ids the remote endpoint may put into a response
ToolCallIDs == {"call_a", "call_b"}

\* the tool registry of an agent created with one tool, named "search":
\* toolID -> ToolSchema (Name, ID)
OneToolSchemas == ("search" :> [Name |-> "search", ID |-> "search"])

\* Function.Arguments of a tool call, by what the two json.Unmarshal calls
\* of executeToolCalls make of it:
\*   "{\"q\":\"x\"}"  parses as a JSON object and fits the tool's struct
\*   "{\"q\":1}"      parses as a JSON object, does not fit the struct
\*   "{"              is not valid JSON
ArgsGood == "{\"q\":\"x\"}"
ArgsBadField == "{\"q\":1}"
ArgsNotJSON == "{"
ArgumentStrings == {ArgsGood, ArgsBadField, ArgsNotJSON}
\* arguments that set both fields of the tool
ArgsLimit == "{\"q\":\"y\",\"limit\":3}"

\* a function name that is no tool's name: it differs from "search" in case
\* only, and normalizes to the same tool id
UnknownToolName == "Search"

\* the tool calls a response may carry: a call the tool accepts under either
\* id, and under the first id the calls that fail before Execute
ToolCallRequests ==
    { [id |-> i, name |-> "search", arguments |-> ArgsGood] : i \in ToolCallIDs }
    \cup { [id |-> "call_a", name |-> "search", arguments |-> a] :
               a \in ArgumentStrings }
    \cup { [id |-> "call_a", name |-> UnknownToolName, arguments |-> a] :
               a \in {ArgsGood, ArgsNotJSON} }

\* choice.Message.Content of a response
ContentJSON == "{\"answer\":1}"
ContentText == "hello"
Contents == {ContentJSON, ContentText}

\* Go values a tool's Execute may return as its interface{} result: the
\* dynamic type and the value.  A []byte is the sequence of its bytes, a
\* struct the sequence of its exported fields with their JSON names.
NilValue == [type |-> "nil", val |-> <<>>]
StringValue(s) == [type |-> "string", val |-> s]
BytesValue(b) == [type |-> "[]byte", val |-> b]
IntValue(n) == [type |-> "int", val |-> n]
BoolValue(b) == [type |-> "bool", val |-> b]
StructValue(fields) == [type |-> "struct", val |-> fields]
ChanValue == [type |-> "chan", val |-> <<>>]
Field(name, value) == [name |-> name, value |-> value]

\* what a tool's Execute returns: a result value and an error
ResultKinds == {StringValue("text"), ChanValue}
ExecuteOutcomes == [result : ResultKinds, err : BOOLEAN]

\* the results of every dynamic type resultToString tells apart
AllResults ==
    {NilValue, StringValue("text"), StringValue(""),
     BytesValue(<<104, 105>>), BytesValue(<<>>),
     IntValue(7), BoolValue(TRUE),
     StructValue(<<Field("v", IntValue(1))>>),
     StructValue(<<Field("name", StringValue("text")), Field("next", NilValue)>>),
     StructValue(<<Field("done", ChanValue)>>),
     ChanValue}

\* the zero value of Output, and error values
ZeroOutput == "<zero>"
NoError == "nil"

BoundedSeq(S, n) == UNION { [1..k -> S] : k \in 0..n }

(***************************************************************************)
(* Tool names and identifiers.  A Go string is the sequence of its          *)
(* characters, each a one-character string; the names handled here are     *)
(* ASCII, so a character is a byte and a rune.                             *)
(***************************************************************************)
\* the longest explicit tool name and the longest type name tried
MaxNameLen == 2
MaxTypeNameLen == 3

UpperCase == <<"A", "B", "C", "D", "E", "F", "G", "H", "I", "J", "K", "L", "M",
               "N", "O", "P", "Q", "R", "S", "T", "U", "V", "W", "X", "Y", "Z">>
LowerCase == <<"a", "b", "c", "d", "e", "f", "g", "h", "i", "j", "k", "l", "m",
               "n", "o", "p", "q", "r", "s", "t", "u", "v", "w", "x", "y", "z">>
\* r >= 'A' && r <= 'Z', and b >= 'a' && b <= 'z'
IsUpper(c) == \E i \in DOMAIN UpperCase : UpperCase[i] = c
IsLower(c) == \E i \in DOMAIN LowerCase : LowerCase[i] = c
\* strings.ToLower
ToLowerChar(c) ==
    IF IsUpper(c) THEN LowerCase[CHOOSE i \in DOMAIN UpperCase : UpperCase[i] = c] ELSE c
ToLower(str) == [i \in DOMAIN str |-> ToLowerChar(str[i])]
\* strings.NewReplacer(" ", "_", "-", "_").Replace
ReplaceSeparators(str) ==
    [i \in DOMAIN str |-> IF str[i] \in {" ", "-"} THEN "_" ELSE str[i]]

UnnamedTool == <<"u", "n", "n", "a", "m", "e", "d", "_", "t", "o", "o", "l">>

\* a loop that opens a word only after a lower-case character
NeedsUnderscore_AfterLowerOnly(typeName, i) ==
    i > 1 /\ IsUpper(typeName[i]) /\ IsLower(typeName[i - 1])

\* typeNameToToolName: whether the loop writes '_' before character i (i
\* counts from 1)
NeedsUnderscore(typeName, i) ==
    LET r == typeName[i]
        prevIsLower == i > 1 /\ IsLower(typeName[i - 1])
        nextIsLower == i < Len(typeName) /\ IsLower(typeName[i + 1])
    IN  i > 1 /\ IsUpper(r) /\ (prevIsLower \/ nextIsLower)

\* typeNameToToolName's loop from character i on, with the builder's content
\* so far
RECURSIVE WriteRunes(_, _, _)
WriteRunes(typeName, i, result) ==
    IF i > Len(typeName) THEN result
    ELSE WriteRunes(typeName, i + 1,
                    result \o (IF NeedsUnderscore(typeName, i) THEN <<"_">> ELSE <<>>)
                           \o <<typeName[i]>>)

typeNameToToolName(typeName) ==
    IF typeName = <<>> THEN UnnamedTool
    ELSE ToLower(WriteRunes(typeName, 1, <<>>))

\* a tool given to CreateAgentWithOutput: the name of its type and the Name
\* its AgentToolInfo method returns
Tool(typeName, name) == [typeName |-> typeName, Name |-> name]

\* GetAgentToolInfo: the Name, made from the type name if empty
GetAgentToolInfo(tool) ==
    IF tool.Name = <<>> THEN [Name |-> typeNameToToolName(tool.typeName)]
    ELSE [Name |-> tool.Name]

BuildToolSchema(tool) ==
    LET info == GetAgentToolInfo(tool)
        toolID == ToLower(ReplaceSeparators(info.Name))
    IN  [Name |-> info.Name, ID |-> toolID]

\* an assignment that leaves an existing entry alone
MapSet_KeepExisting(m, k, v) ==
    [x \in DOMAIN m \cup {k} |-> IF x \in DOMAIN m THEN m[x] ELSE v]

\* the map after m[k] = v
MapSet(m, k, v) == [x \in DOMAIN m \cup {k} |-> IF x = k THEN v ELSE m[x]]

\* CreateAgentWithOutput's loop over tools[i..], with the two maps so far
RECURSIVE RegisterTools(_, _, _)
RegisterTools(tools, toolMap, schemaMap) ==
    IF tools = <<>> THEN [tools |-> toolMap, schemas |-> schemaMap]
    ELSE LET tool == Head(tools)
             toolSchema == BuildToolSchema(tool)
         IN  RegisterTools(Tail(tools),
                           MapSet(toolMap, toolSchema.ID, tool),
                           MapSet(schemaMap, toolSchema.ID, toolSchema))

\* CreateAgentWithOutput: the agent's tools and schemas maps
CreateAgentWithOutput(tools) == RegisterTools(tools, <<>>, <<>>)

(***************************************************************************)
(* State.                                                                  *)
(***************************************************************************)
VARIABLES
    agent,        \* the Agent object: maxIterations, model, schemas, tools, callbacks, outputIsString
    invokeConfig, \* the InvokeConfig given to Invoke
    pc,           \* where Invoke is: idle, loop, calling, tools, executing, done
    cbManager,    \* the invocation's callback.Manager
    nextUUID,     \* the next value uuid.New() returns
    events,       \* the event contexts broadcast to the callbacks, in order
    received,     \* each call of a callback's method and the context it got, in order
    lc,           \* the LangfuseCallback object: its span fields
    spans,        \* the spans the tracer started, in order: the id of a span is its index
    messages,     \* executeLoop's message history
    maxIter,      \* Invoke's effective iteration cap
    iteration,    \* executeLoop's iteration counter
    toolCalls,    \* the tool calls of the response being dispatched
    idx,          \* position in toolCalls of the call being dispatched
    toolMessages, \* executeToolCalls's tool-role messages so far
    ret,          \* what Invoke returned: [value, err]
    apiLog,       \* what each remote completion call returned, in order
    execLog,      \* each tool Execute call and what it returned, in order
    usedIDs,      \* the run ids and nested run ids of the Invoke calls that returned
    construction, \* a call of CreateAgentWithOutput: its tools argument and what it built
    other,        \* the Invoke call of another goroutine on the same agent: its locals
    tpl,          \* the prompt Template manager, and the last call made on it
    schemaCall,   \* the last call of MarshalToSchema: its argument and the map returned
    hub           \* the MCP server hub: the StartSSEServerWithRoutes call, its mux, and the last request

vars == <<agent, invokeConfig, pc, cbManager, nextUUID, events, received, lc, spans,
          messages, maxIter, iteration,
          toolCalls, idx, toolMessages, ret, apiLog, execLog, usedIDs, construction, other, tpl, schemaCall, hub>>

(***************************************************************************)
(* Messages of the conversation history.                                   *)
(***************************************************************************)
Message(role, content, toolCallID) ==
    [role |-> role, content |-> content, tool_call_id |-> toolCallID]
SystemMessage(content) == Message("system", content, NoStr)
UserMessage(content) == Message("user", content, NoStr)
AssistantMessage(content) == Message("assistant", content, NoStr)
ToolMessage(content, toolCallID) == Message("tool", content, toolCallID)

(***************************************************************************)
(* Errors.                                                                 *)
(***************************************************************************)
ErrBothInputs == "cannot specify both Prompt and Messages"
ErrNoInput == "must specify either Prompt or Messages"
ErrRemote == "remote call failed"
ErrAPI == "OpenAI API error: remote call failed"
ErrNoChoices == "no choices in response"
ErrJSON == "invalid JSON"
ErrOutputJSON == "failed to parse output JSON: invalid JSON"
ErrToolArgs == "failed to parse tool arguments: invalid JSON"
ErrToolNotFound == "tool not found"
ErrToolUnmarshal == "failed to unmarshal tool arguments: invalid JSON"
ErrExecute == "execute failed"
ErrToolFailed == "tool failed: execute failed"
ErrMarshal == "json: unsupported type"
ErrToolResult == "failed to convert tool result to string: json: unsupported type"
ErrMaxIterations == "max iterations reached without completion"

InputErrors == {ErrBothInputs, ErrNoInput}

(***************************************************************************)
(* encoding/json, as far as the loop depends on it.                        *)
(***************************************************************************)
\* json.Unmarshal([]byte(arguments), &args) with args map[string]interface{}
UnmarshalsToMap(arguments) == arguments \in {ArgsGood, ArgsBadField, ArgsLimit}

\* the executor registered with the agent: &SearchTool{Limit: 5}, of
\*   type SearchTool struct { Q string `json:"q"`; Limit int `json:"limit"` }
\* An object is its address, its type and its fields under their JSON names.
SearchTool ==
    [addr |-> "registered", type |-> "SearchTool",
     fields |-> [q |-> StringValue(""), limit |-> IntValue(5)]]
OneToolExecutors == ("search" :> SearchTool)

\* the zero value of the type of a value
ZeroOf(v) ==
    CASE v.type = "string" -> StringValue("")
      [] v.type = "int" -> IntValue(0)
      [] v.type = "bool" -> BoolValue(FALSE)
      [] OTHER -> NilValue

\* a dispatch that unmarshals into the registered executor itself
NewToolInstance_Registered(executor) == executor

\* reflect.New(toolValue.Type()).Interface().(ToolExecutor): a new object of
\* the executor's type, every field at its zero value
NewToolInstance(executor) ==
    [addr |-> "copy", type |-> executor.type,
     fields |-> [f \in DOMAIN executor.fields |-> ZeroOf(executor.fields[f])]]

\* the JSON text of the arguments, decoded: [members, err]
JSONObject(arguments) ==
    CASE arguments = ArgsGood ->
            [members |-> <<Field("q", StringValue("x"))>>, err |-> NoError]
      [] arguments = ArgsBadField ->
            [members |-> <<Field("q", IntValue(1))>>, err |-> NoError]
      [] arguments = ArgsLimit ->
            [members |-> <<Field("q", StringValue("y")), Field("limit", IntValue(3))>>,
             err |-> NoError]
      [] OTHER -> [members |-> <<>>, err |-> ErrJSON]

\* json.Unmarshal([]byte(arguments), toolCopy): [tool, err].  Invalid JSON
\* writes nothing; a member no field is tagged with is skipped; a member of the
\* wrong type is skipped and reported after the other members are stored.
RECURSIVE UnmarshalMembers(_, _)
UnmarshalMembers(members, tool) ==
    IF members = <<>> THEN [tool |-> tool, err |-> NoError]
    ELSE LET m == Head(members)
             known == m.name \in DOMAIN tool.fields
             fits == known /\ m.value.type = tool.fields[m.name].type
             stored == IF fits THEN [tool EXCEPT !.fields[m.name] = m.value] ELSE tool
             rest == UnmarshalMembers(Tail(members), stored)
         IN  IF known /\ ~fits THEN [tool |-> rest.tool, err |-> ErrJSON] ELSE rest
Unmarshal(arguments, tool) ==
    LET o == JSONObject(arguments)
    IN  IF o.err # NoError THEN [tool |-> tool, err |-> o.err]
        ELSE UnmarshalMembers(o.members, tool)

\* json.Unmarshal([]byte(arguments), toolCopy)
UnmarshalsToTool(arguments) ==
    Unmarshal(arguments, NewToolInstance(SearchTool)).err = NoError

\* the agent after a store through the pointer toolCopy: the registry's
\* executor changes only if toolCopy points to it
StoredThrough(a, id, tool) ==
    IF tool.addr = a.tools[id].addr THEN [a EXCEPT !.tools[id] = tool] ELSE a
\* a parse that accepts any content
UnmarshalsToOutput_Lenient(content) == TRUE

\* json.Unmarshal([]byte(content), &result) with result of the Output type
UnmarshalsToOutput(content) == content = ContentJSON
\* the Output value json.Unmarshal yields from valid content
ParsedOutput(content) == IF content = ContentJSON THEN "Output{Answer:1}" ELSE ZeroOutput

\* string(v) for a []byte v: the characters of the bytes
ByteChar == (104 :> "h") @@ (105 :> "i")
RECURSIVE BytesToString(_)
BytesToString(b) ==
    IF b = <<>> THEN "" ELSE ByteChar[Head(b)] \o BytesToString(Tail(b))

\* json.Marshal of a value: [data, err].  A channel has no JSON form, and
\* neither has a struct with a channel in it.
RECURSIVE Marshal(_), MarshalFields(_)
Marshal(v) ==
    CASE v.type = "nil" -> [data |-> "null", err |-> NoError]
      [] v.type = "bool" -> [data |-> IF v.val THEN "true" ELSE "false", err |-> NoError]
      [] v.type = "int" -> [data |-> ToString(v.val), err |-> NoError]
      [] v.type = "string" -> [data |-> "\"" \o v.val \o "\"", err |-> NoError]
      [] v.type = "struct" ->
            LET f == MarshalFields(v.val)
            IN  IF f.err # NoError THEN f
                ELSE [data |-> "{" \o f.data \o "}", err |-> NoError]
      [] OTHER -> [data |-> "", err |-> ErrMarshal]
MarshalFields(fields) ==
    IF fields = <<>> THEN [data |-> "", err |-> NoError]
    ELSE LET value == Marshal(Head(fields).value)
             rest == MarshalFields(Tail(fields))
         IN  IF value.err # NoError THEN [data |-> "", err |-> value.err]
             ELSE IF rest.err # NoError THEN rest
             ELSE [data |-> "\"" \o Head(fields).name \o "\":" \o value.data
                              \o (IF Tail(fields) = <<>> THEN "" ELSE ",")
                              \o rest.data,
                   err |-> NoError]

\* resultToString that serializes every result that is not nil
resultToString_AlwaysJSON(result) ==
    IF result.type = "nil" THEN [str |-> "", err |-> NoError]
    ELSE LET m == Marshal(result)
         IN  [str |-> m.data, err |-> m.err]

\* resultToString: [str, err]
resultToString(result) ==
    IF result.type = "nil" THEN [str |-> "", err |-> NoError]
    ELSE IF result.type = "string" THEN [str |-> result.val, err |-> NoError]
    ELSE IF result.type = "[]byte"
    THEN [str |-> BytesToString(result.val), err |-> NoError]
    ELSE LET jsonBytes == Marshal(result)
         IN  IF jsonBytes.err # NoError
             THEN [str |-> "", err |-> jsonBytes.err]
             ELSE [str |-> jsonBytes.data, err |-> NoError]

(***************************************************************************)
(* Callbacks.  A callback is an object that implements AgentCallback: its  *)
(* Name(), its identity and what its methods do.                           *)
(***************************************************************************)
Callback(name, obj, kind) == [name |-> name, obj |-> obj, kind |-> kind]

\* two callbacks that only look at the context, under one name
LogA == Callback("log", 1, "observer")
LogB == Callback("log", 2, "observer")
\* a callback whose methods do  ctx["run_id"] = ScrubbedID
Scrubber == Callback("scrub", 3, "context writer")
ScrubbedID == 0
\* a callback whose OnGenerationEnd does
\*   calls := ctx["tool_calls"].([]openai.ChatCompletionMessageToolCall)
\*   calls[0].Function.Name = RewrittenName
Rewriter == Callback("rewrite", 4, "tool call writer")
RewrittenName == "Search"
\* the LangfuseCallback object
Langfuse == Callback("LangfuseCallback", 5, "langfuse")

\* a span of the tracer: its name, its parent span (0 for none), how often
\* End was called on it, and the run id of the manager whose event started it
Span(name, parent, run) == [name |-> name, parent |-> parent, ended |-> 0, run |-> run]

\* NewLangfuseCallback: the object, and the trace span initializeTrace starts
NewLangfuseCallback ==
    [lc |-> [traceSpan |-> Ptr(1), rootSpan |-> Nil, currentGenerationSpan |-> Nil,
             toolSpans |-> <<>>, traceContext |-> 1, rootSpanContext |-> 0],
     spans |-> <<Span("trace", 0, NoID)>>]

\* tracer.Start and span.End, on D = [rcv, lc, spans, ctx, event, run]
Started(D, name, parent) == [D EXCEPT !.spans = Append(@, Span(name, parent, D.run))]
Ended(D, span) == [D EXCEPT !.spans[span].ended = @ + 1]
RECURSIVE EndedAll(_, _)
EndedAll(D, spanSet) ==
    IF spanSet = {} THEN D
    ELSE LET span == CHOOSE x \in spanSet : TRUE
         IN  EndedAll(Ended(D, span), spanSet \ {span})

\* LangfuseCallback.OnRunStart
LangfuseOnRunStart(D) ==
    IF D.ctx.parent_run_id = NoID
    THEN LET D1 == Started(D, "agent.run", D.lc.traceContext)
         IN  [D1 EXCEPT !.lc.rootSpan = Ptr(Len(D1.spans)),
                        !.lc.rootSpanContext = Len(D1.spans)]
    ELSE D

\* LangfuseCallback.OnRunEnd
LangfuseOnRunEnd(D) ==
    IF D.lc.rootSpan = Nil THEN D
    ELSE LET D1 == Ended(D, Deref(D.lc.rootSpan))
         IN  IF D1.lc.traceSpan # Nil THEN Ended(D1, Deref(D1.lc.traceSpan)) ELSE D1

\* OnGenerationStart that starts the generation span under the trace span
LangfuseOnGenerationStart_UnderTrace(D) ==
    IF D.lc.rootSpan = Nil THEN D
    ELSE LET D1 == Started(D, "llm.generation", D.lc.traceContext)
         IN  [D1 EXCEPT !.lc.currentGenerationSpan = Ptr(Len(D1.spans))]

\* LangfuseCallback.OnGenerationStart
LangfuseOnGenerationStart(D) ==
    IF D.lc.rootSpan = Nil THEN D
    ELSE LET D1 == Started(D, "llm.generation", D.lc.rootSpanContext)
         IN  [D1 EXCEPT !.lc.currentGenerationSpan = Ptr(Len(D1.spans))]

\* LangfuseCallback.OnGenerationEnd
LangfuseOnGenerationEnd(D) ==
    IF D.lc.currentGenerationSpan = Nil THEN D
    ELSE [Ended(D, Deref(D.lc.currentGenerationSpan))
             EXCEPT !.lc.currentGenerationSpan = Nil]

\* LangfuseCallback.OnToolCallStart
LangfuseOnToolCallStart(D) ==
    IF D.lc.rootSpan = Nil THEN D
    ELSE LET D1 == Started(D, "tool." \o D.ctx.tool_name, D.lc.rootSpanContext)
             id == D.ctx.tool_call_id
         IN  [D1 EXCEPT !.lc.toolSpans =
                 [x \in DOMAIN @ \cup {id} |-> IF x = id THEN Len(D1.spans) ELSE @[x]]]

\* LangfuseCallback.OnToolCallEnd
LangfuseOnToolCallEnd(D) ==
    LET id == D.ctx.tool_call_id
    IN  IF id \notin DOMAIN D.lc.toolSpans THEN D
        ELSE [Ended(D, D.lc.toolSpans[id])
                 EXCEPT !.lc.toolSpans = [x \in DOMAIN @ \ {id} |-> @[x]]]

\* LangfuseCallback.OnError
LangfuseOnError(D) ==
    LET D1 == IF D.lc.currentGenerationSpan # Nil
              THEN [Ended(D, Deref(D.lc.currentGenerationSpan))
                       EXCEPT !.lc.currentGenerationSpan = Nil]
              ELSE D
        D2 == [EndedAll(D1, {D1.lc.toolSpans[x] : x \in DOMAIN D1.lc.toolSpans})
                  EXCEPT !.lc.toolSpans = <<>>]
        D3 == IF D2.lc.rootSpan # Nil
              THEN [Ended(D2, Deref(D2.lc.rootSpan)) EXCEPT !.lc.rootSpan = Nil]
              ELSE D2
    IN  IF D3.lc.traceSpan # Nil
        THEN [Ended(D3, Deref(D3.lc.traceSpan)) EXCEPT !.lc.traceSpan = Nil]
        ELSE D3

\* the method of LangfuseCallback for the event
LangfuseMethod(D) ==
    CASE D.ctx.type = "RunStart" -> LangfuseOnRunStart(D)
      [] D.ctx.type = "RunEnd" -> LangfuseOnRunEnd(D)
      [] D.ctx.type = "GenerationStart" -> LangfuseOnGenerationStart(D)
      [] D.ctx.type = "GenerationEnd" -> LangfuseOnGenerationEnd(D)
      [] D.ctx.type = "ToolCallStart" -> LangfuseOnToolCallStart(D)
      [] D.ctx.type = "ToolCallEnd" -> LangfuseOnToolCallEnd(D)
      [] OTHER -> LangfuseOnError(D)

\* cb.OnX(ctx): what the method of the callback does to the context map it is
\* given, to what the map refers to, and to the callback object
CallbackMethod(cb, D) ==
    CASE cb.kind = "context writer" -> [D EXCEPT !.ctx.run_id = ScrubbedID]
      [] cb.kind = "tool call writer" ->
            IF D.ctx.type = "GenerationEnd" /\ D.ctx.tool_calls # <<>>
            THEN [D EXCEPT !.ctx.tool_calls[1].name = RewrittenName]
            ELSE D
      [] cb.kind = "langfuse" -> LangfuseMethod(D)
      [] OTHER -> D

(***************************************************************************)
(* callback.Manager.  An operator that stands for a method takes and       *)
(* returns M = [cm, ev, uuid, rcv, lc, spans, ctx]: the manager, the       *)
(* events broadcast so far, the uuid source, what the callbacks received,  *)
(* the LangfuseCallback object and the tracer's spans, and the context of  *)
(* the last event as the callbacks left it.                                *)
(***************************************************************************)
\* an event context: the keys any event may carry, absent ones at NoID/NoStr
Ctx(type) ==
    [type |-> type, run_id |-> NoID, parent_run_id |-> NoID,
     model |-> NoStr, input |-> NoStr, has_output_class |-> FALSE, iteration |-> 0, total_iterations |-> 0,
     content |-> NoStr, tool_calls |-> <<>>, output |-> NoStr,
     tool_name |-> NoStr, tool_call_id |-> NoStr, result |-> NilValue,
     error |-> NoStr, stage |-> NoStr]

\* a manager whose run id is not taken from the uuid source
NewManager_FixedID(callbacks, parentRunID, uuid) ==
    [callbacks |-> callbacks, runID |-> 1, parentRunID |-> parentRunID,
     nestedRunID |-> <<>>, nestedParents |-> <<>>]

\* a manager that forgets the parent run id it was given
NewManager_NoParent(callbacks, parentRunID, uuid) ==
    [callbacks |-> callbacks, runID |-> uuid, parentRunID |-> Nil,
     nestedRunID |-> <<>>, nestedParents |-> <<>>]

NewManager(callbacks, parentRunID, uuid) ==
    [callbacks |-> callbacks, runID |-> uuid, parentRunID |-> parentRunID,
     nestedRunID |-> <<>>, nestedParents |-> <<>>]

\* createNestedRun: the manager after it, and the id it returns
createNestedRun(cm, toolCallID, uuid) ==
    [cm |-> [cm EXCEPT !.nestedRunID = (toolCallID :> uuid) @@ @,
                       !.nestedParents = (uuid :> cm.runID) @@ @],
     nestedID |-> uuid]

\* a lookup that never finds the nested run
getNestedRunID_Lost(cm, toolCallID) == Nil

getNestedRunID(cm, toolCallID) ==
    IF toolCallID \in DOMAIN cm.nestedRunID
    THEN Ptr(cm.nestedRunID[toolCallID]) ELSE Nil

\* addRunContext that sets no parent_run_id when there is no nested run
addRunContext_NoParent(cm, ctx, nestedRunID) ==
    IF nestedRunID # Nil
    THEN [ctx EXCEPT !.run_id = Deref(nestedRunID), !.parent_run_id = cm.runID]
    ELSE [ctx EXCEPT !.run_id = cm.runID]

addRunContext(cm, ctx, nestedRunID) ==
    IF nestedRunID # Nil
    THEN [ctx EXCEPT !.run_id = Deref(nestedRunID), !.parent_run_id = cm.runID]
    ELSE [ctx EXCEPT !.run_id = cm.runID,
                     !.parent_run_id = IF cm.parentRunID # Nil
                                       THEN Deref(cm.parentRunID) ELSE @]

\* for _, cb := range cm.callbacks { cb.OnX(ctx) }: the one context map is
\* handed to each callback in turn, so each sees it as the previous one left
\* it.  D = [rcv, lc, spans, ctx, event, run] is what the loop carries along.
RECURSIVE Deliver(_, _)
Deliver(callbacks, D) ==
    IF callbacks = <<>> THEN D
    ELSE LET cb == Head(callbacks)
             call == [cb |-> cb, method |-> D.ctx.type, ctx |-> D.ctx,
                      event |-> D.event, run |-> D.run]
         IN  Deliver(Tail(callbacks),
                     CallbackMethod(cb, [D EXCEPT !.rcv = Append(@, call)]))

\* a manager that calls its first callback only
Broadcast_FirstOnly(M, ctx) ==
    LET D == Deliver(IF M.cm.callbacks = <<>> THEN <<>> ELSE <<Head(M.cm.callbacks)>>,
                     [rcv |-> M.rcv, lc |-> M.lc, spans |-> M.spans, ctx |-> ctx,
                      event |-> Len(M.ev) + 1, run |-> M.cm.runID])
    IN  [M EXCEPT !.ev = Append(@, ctx), !.rcv = D.rcv, !.lc = D.lc,
                  !.spans = D.spans, !.ctx = D.ctx]

Broadcast(M, ctx) ==
    LET D == Deliver(M.cm.callbacks,
                     [rcv |-> M.rcv, lc |-> M.lc, spans |-> M.spans, ctx |-> ctx,
                      event |-> Len(M.ev) + 1, run |-> M.cm.runID])
    IN  [M EXCEPT !.ev = Append(@, ctx), !.rcv = D.rcv, !.lc = D.lc,
                  !.spans = D.spans, !.ctx = D.ctx]

\* OnRunStart that reaches no callback
OnRunStart_Silent(M, model, input, hasOutputClass) == M

OnRunStart(M, model, input, hasOutputClass) ==
    Broadcast(M, addRunContext(M.cm,
        [Ctx("RunStart") EXCEPT !.model = model, !.input = input,
                                !.has_output_class = hasOutputClass], Nil))

\* OnRunEnd that reports the iteration before the last one
OnRunEnd_OneShort(M, output, totalIterations) ==
    Broadcast(M, addRunContext(M.cm,
        [Ctx("RunEnd") EXCEPT !.output = output,
                              !.total_iterations = totalIterations - 1], Nil))

OnRunEnd(M, output, totalIterations) ==
    Broadcast(M, addRunContext(M.cm,
        [Ctx("RunEnd") EXCEPT !.output = output,
                              !.total_iterations = totalIterations], Nil))

OnGenerationStart(M, iter, model) ==
    Broadcast(M, addRunContext(M.cm,
        [Ctx("GenerationStart") EXCEPT !.iteration = iter, !.model = model], Nil))

\* OnGenerationEnd that reaches no callback
OnGenerationEnd_Silent(M, content, calls) == M

OnGenerationEnd(M, content, calls) ==
    Broadcast(M, addRunContext(M.cm,
        [Ctx("GenerationEnd") EXCEPT !.content = content, !.tool_calls = calls], Nil))

OnToolCallStart(M, toolName, toolCallID) ==
    LET n == createNestedRun(M.cm, toolCallID, M.uuid)
        M1 == [M EXCEPT !.cm = n.cm, !.uuid = M.uuid + 1]
    IN  Broadcast(M1, addRunContext(M1.cm,
            [Ctx("ToolCallStart") EXCEPT !.tool_name = toolName,
                                         !.tool_call_id = toolCallID],
            Ptr(n.nestedID)))

\* OnToolCallEnd that leaves the error out of the context
OnToolCallEnd_NoError(M, toolName, result, toolCallID, err) ==
    Broadcast(M, addRunContext(M.cm,
        [Ctx("ToolCallEnd") EXCEPT !.tool_name = toolName, !.result = result,
                                   !.tool_call_id = toolCallID],
        getNestedRunID(M.cm, toolCallID)))

OnToolCallEnd(M, toolName, result, toolCallID, err) ==
    Broadcast(M, addRunContext(M.cm,
        [Ctx("ToolCallEnd") EXCEPT !.tool_name = toolName, !.result = result,
                                   !.tool_call_id = toolCallID,
                                   !.error = IF err # NoError THEN err ELSE @],
        getNestedRunID(M.cm, toolCallID)))

OnError(M, err, stage) ==
    Broadcast(M, addRunContext(M.cm,
        [Ctx("Error") EXCEPT !.error = err, !.stage = stage], Nil))

(***************************************************************************)
(* kit.Agent                                                               *)
(***************************************************************************)
\* the caps a caller puts into InvokeConfig.MaxIterations
OverrideCaps == {-1, 0, 1}

\* InvokeConfig values: Prompt, Messages, Callbacks, SystemPrompt, ParentRunID,
\* MaxIterations
InvokeConfigs ==
    [Prompt : {"", "hi"},
     Messages : {<<>>, <<UserMessage("earlier"), UserMessage("now")>>},
     Callbacks : {<<>>},
     SystemPrompt : {"", "be brief"},
     ParentRunID : {Nil, Ptr(CallerRunID)},
     MaxIterations : {Nil} \cup {Ptr(n) : n \in OverrideCaps}]

\* what the remote completion call may return: an error, a completion with
\* no choices, or a completion whose first choice has content and tool calls
\* (the endpoint sends a response that asks for tools with empty content)
CompletionOutcomes ==
    {[kind |-> "error", content |-> NoStr, tool_calls |-> <<>>],
     [kind |-> "empty", content |-> NoStr, tool_calls |-> <<>>]}
    \cup { [kind |-> "choice", content |-> c, tool_calls |-> <<>>] : c \in Contents }
    \cup { [kind |-> "choice", content |-> NoStr, tool_calls |-> tc] :
               tc \in BoundedSeq(ToolCallRequests, MaxToolCalls) \ {<<>>} }

\* buildMessages that puts the system prompt after the input
buildMessages_SystemLast(config) ==
    LET sys == IF config.SystemPrompt # ""
               THEN <<SystemMessage(config.SystemPrompt)>> ELSE <<>>
    IN  IF config.Prompt # "" /\ Len(config.Messages) > 0
        THEN [messages |-> <<>>, err |-> ErrBothInputs]
        ELSE IF config.Prompt # ""
        THEN [messages |-> <<UserMessage(config.Prompt)>> \o sys, err |-> NoError]
        ELSE IF Len(config.Messages) > 0
        THEN [messages |-> config.Messages \o sys, err |-> NoError]
        ELSE [messages |-> <<>>, err |-> ErrNoInput]

\* buildMessages without the both-supplied check: the prompt wins
buildMessages_PromptWins(config) ==
    LET sys == IF config.SystemPrompt # ""
               THEN <<SystemMessage(config.SystemPrompt)>> ELSE <<>>
    IN  IF config.Prompt # ""
        THEN [messages |-> Append(sys, UserMessage(config.Prompt)), err |-> NoError]
        ELSE IF Len(config.Messages) > 0
        THEN [messages |-> sys \o config.Messages, err |-> NoError]
        ELSE [messages |-> <<>>, err |-> ErrNoInput]

\* buildMessages: [messages, err]
buildMessages(config) ==
    LET sys == IF config.SystemPrompt # ""
               THEN <<SystemMessage(config.SystemPrompt)>> ELSE <<>>
    IN  IF config.Prompt # "" /\ Len(config.Messages) > 0
        THEN [messages |-> <<>>, err |-> ErrBothInputs]
        ELSE IF config.Prompt # ""
        THEN [messages |-> Append(sys, UserMessage(config.Prompt)), err |-> NoError]
        ELSE IF Len(config.Messages) > 0
        THEN [messages |-> sys \o config.Messages, err |-> NoError]
        ELSE [messages |-> <<>>, err |-> ErrNoInput]

\* the number of tool calls the responses logged in l carry
RECURSIVE ToolCallsRequested(_)
ToolCallsRequested(l) ==
    IF l = <<>> THEN 0
    ELSE Len(l[Len(l)].tool_calls) + ToolCallsRequested(SubSeq(l, 1, Len(l) - 1))

\* the callbacks of a list that have none of the names
RECURSIVE WithoutNames(_, _)
WithoutNames(callbacks, names) ==
    IF callbacks = <<>> THEN <<>>
    ELSE (IF Head(callbacks).name \in names THEN <<>> ELSE <<Head(callbacks)>>)
         \o WithoutNames(Tail(callbacks), names)

\* a merge that keeps every agent-level callback
mergeCallbacks_KeepAll(agentCallbacks, invokeCallbacks) ==
    invokeCallbacks \o agentCallbacks

\* Agent.mergeCallbacks, for a.callbacks and config.Callbacks
mergeCallbacks(agentCallbacks, invokeCallbacks) ==
    LET seenCallbackNames == {invokeCallbacks[i].name : i \in DOMAIN invokeCallbacks}
    IN  invokeCallbacks \o WithoutNames(agentCallbacks, seenCallbackNames)

\* the manager, the events and the uuid source as they are now
CurM ==
    [cm |-> cbManager, ev |-> events, uuid |-> nextUUID,
     rcv |-> received, lc |-> lc, spans |-> spans, ctx |-> Ctx("")]
Commit(M) ==
    /\ cbManager' = M.cm
    /\ events' = M.ev
    /\ nextUUID' = M.uuid
    /\ received' = M.rcv
    /\ lc' = M.lc
    /\ spans' = M.spans

\* an error return that reports nothing to the callbacks
InvokeFails_Unreported(M, err) ==
    /\ Commit(M)
    /\ ret' = [value |-> ZeroOutput, err |-> err]
    /\ pc' = "done"

\* Invoke's error return: cbManager.OnError(err, "run"); return zero, err
InvokeFails(M, err) ==
    /\ Commit(OnError(M, err, "run"))
    /\ ret' = [value |-> ZeroOutput, err |-> err]
    /\ pc' = "done"

\* a normal return that skips OnRunEnd
InvokeSucceeds_NoRunEnd(M, result, iterations) ==
    /\ Commit(M)
    /\ ret' = [value |-> result, err |-> NoError]
    /\ pc' = "done"

\* Invoke's normal return: cbManager.OnRunEnd(result, iterations); return result, nil
InvokeSucceeds(M, result, iterations) ==
    /\ Commit(OnRunEnd(M, result, iterations))
    /\ ret' = [value |-> result, err |-> NoError]
    /\ pc' = "done"

\* an error return of executeLoop: cbManager.OnError(cause, stage);
\* return zero, iteration, err -- and Invoke's handling of that return
LoopFails(M, cause, stage, err) ==
    InvokeFails(OnError(M, cause, stage), err)

\* a lookup that falls back on some registered tool
FindToolID_Default(schemas, toolName) ==
    IF \E id \in DOMAIN schemas : schemas[id].Name = toolName
    THEN CHOOSE id \in DOMAIN schemas : schemas[id].Name = toolName
    ELSE CHOOSE id \in DOMAIN schemas : TRUE

\* the toolID whose schema has the given name, "" if none
FindToolID(schemas, toolName) ==
    IF \E id \in DOMAIN schemas : schemas[id].Name = toolName
    THEN CHOOSE id \in DOMAIN schemas : schemas[id].Name = toolName
    ELSE ""

(***************************************************************************)
(* package mcp: StartSSEServerWithRoutes.  A path is a string, written as  *)
(* the sequence of its characters; the http.ServeMux is the map from the   *)
(* registered patterns to their handlers.                                  *)
(***************************************************************************)
MaxRoutes == 2

Slash == <<"/">>
SSEEndpoint == <<"/", "s", "s", "e">>
MessageEndpoint == <<"/", "m", "e", "s", "s", "a", "g", "e">>
\* StartSSEServer's route path
DefaultPath == <<"/", "d", "e", "f", "a", "u", "l", "t">>
ErrNoRoutes == "at least one server route is required"
ErrListen == "listen tcp: address already in use"

\* the route paths a caller of StartSSEServerWithRoutes gives
PathPool ==
    { <<>>, Slash, <<"a">>, <<"/", "a">>, <<"/", "a", "/">>, <<"/", "b">>,
      <<"b", "/">>, DefaultPath \o Slash }

\* ServerRoute{Path, Server}; the MCP servers are numbered
ServerRoute(path, server) == [Path |-> path, Server |-> server]
RouteLists ==
    UNION { { [i \in 1..n |-> ServerRoute(paths[i], i)] : paths \in [1..n -> PathPool] } :
            n \in 0..MaxRoutes }

\* strings.HasPrefix, strings.HasSuffix, strings.TrimSuffix
HasPrefix(s, prefix) ==
    Len(s) >= Len(prefix) /\ SubSeq(s, 1, Len(prefix)) = prefix
HasSuffix(s, suffix) ==
    Len(s) >= Len(suffix) /\ SubSeq(s, Len(s) - Len(suffix) + 1, Len(s)) = suffix
TrimSuffix(s, suffix) ==
    IF HasSuffix(s, suffix) THEN SubSeq(s, 1, Len(s) - Len(suffix)) ELSE s

\* the loop body's basePath: a leading slash added, one trailing slash cut
BasePath(path) ==
    LET withSlash == IF ~HasPrefix(path, Slash) THEN Slash \o path ELSE path
    IN  IF HasSuffix(withSlash, Slash) /\ Len(withSlash) > 1
        THEN TrimSuffix(withSlash, Slash)
        ELSE withSlash

\* http.NewServeMux, and mux.Handle, which panics on a pattern registered twice
NewServeMux == [handlers |-> <<>>, panicked |-> FALSE]
MuxHandle(mux, pattern, handler) ==
    IF mux.panicked THEN mux
    ELSE IF pattern \in DOMAIN mux.handlers THEN [mux EXCEPT !.panicked = TRUE]
    ELSE [mux EXCEPT !.handlers =
             [p \in DOMAIN @ \cup {pattern} |-> IF p = pattern THEN handler ELSE @[p]]]

\* server.NewSSEServer(route.Server, WithStaticBasePath(basePath), ...) and
\* its two handlers
NewSSEServer(server, basePath) == [server |-> server, basePath |-> basePath]
SSEHandler(sseServer) == [kind |-> "sse", of |-> sseServer]
MessageHandler(sseServer) == [kind |-> "message", of |-> sseServer]
IndexHandler == [kind |-> "index", of |-> Nil]

\* the endpoints of a base path, as the log line and the index endpoint give them
RouteInfo(basePath) ==
    [base_path |-> basePath,
     sse_endpoint |-> basePath \o SSEEndpoint,
     message_endpoint |-> basePath \o MessageEndpoint]

\* the pattern the SSE handler of a route is registered at:
\* mux.Handle("/default/sse", sseServer.SSEHandler())
SSEPattern(basePath) == DefaultPath \o SSEEndpoint

\* the body of  for _, route := range routes,  on S = [mux, log]
RegisterRoute(S, route) ==
    LET basePath == BasePath(route.Path)
        sseServer == NewSSEServer(route.Server, basePath)
        mux1 == MuxHandle(S.mux, SSEPattern(basePath), SSEHandler(sseServer))
        messageEndpointPath == basePath \o MessageEndpoint
        mux2 == MuxHandle(mux1, messageEndpointPath, MessageHandler(sseServer))
    IN  IF S.mux.panicked THEN S
        ELSE [mux |-> mux2,
              log |-> IF mux2.panicked THEN S.log
                      ELSE Append(S.log, RouteInfo(basePath))]

RECURSIVE RegisterRoutes(_, _)
RegisterRoutes(S, routes) ==
    IF routes = <<>> THEN S
    ELSE RegisterRoutes(RegisterRoute(S, Head(routes)), Tail(routes))

\* no StartSSEServerWithRoutes call yet
NoServer ==
    [called |-> FALSE, routes |-> <<>>, err |-> NoError, panicked |-> FALSE,
     handlers |-> <<>>, log |-> <<>>, serving |-> FALSE, response |-> Nil]

\* StartSSEServerWithRoutes(addr, routes...): listens is whether
\* http.ListenAndServe gets the address
StartSSEServerWithRoutes(routes, listens) ==
    IF Len(routes) = 0
    THEN [NoServer EXCEPT !.called = TRUE, !.err = ErrNoRoutes]
    ELSE LET S == RegisterRoutes([mux |-> NewServeMux, log |-> <<>>], routes)
             mux == MuxHandle(S.mux, Slash, IndexHandler)
         IN  [called |-> TRUE, routes |-> routes,
              err |-> IF ~mux.panicked /\ ~listens THEN ErrListen ELSE NoError,
              panicked |-> mux.panicked,
              handlers |-> mux.handlers, log |-> S.log,
              serving |-> ~mux.panicked /\ listens, response |-> Nil]

\* StartSSEServer(mcpServer, addr)
StartSSEServer(mcpServer, listens) ==
    StartSSEServerWithRoutes(<<ServerRoute(DefaultPath, mcpServer)>>, listens)

\* the paths of the requests
RequestPaths ==
    {Slash, DefaultPath \o SSEEndpoint}
        \cup { BasePath(p) \o e : p \in PathPool, e \in {SSEEndpoint, MessageEndpoint} }

\* ServeMux's cleanPath on the paths above: doubled slashes are collapsed
RECURSIVE CleanPath(_)
CleanPath(path) ==
    IF Len(path) <= 1 THEN path
    ELSE IF path[1] = "/" /\ path[2] = "/" THEN CleanPath(Tail(path))
    ELSE <<path[1]>> \o CleanPath(Tail(path))

\* the mux serving a request: an unclean path is redirected, a registered
\* pattern is served by its handler, everything else by the "/" handler, which
\* answers "/" with the list of the routes and the rest with 404
MuxServe(h, path) ==
    IF CleanPath(path) # path
    THEN [status |-> 301, by |-> Nil, body |-> CleanPath(path)]
    ELSE IF path \in DOMAIN h.handlers \ {Slash}
    THEN [status |-> 200, by |-> Ptr(h.handlers[path]), body |-> <<>>]
    ELSE IF path = Slash
    THEN [status |-> 200, by |-> Ptr(IndexHandler),
          body |-> [i \in 1..Len(h.routes) |-> RouteInfo(BasePath(h.routes[i].Path))]]
    ELSE [status |-> 404, by |-> Ptr(IndexHandler), body |-> <<>>]

(***************************************************************************)
(* package prompt: the Template manager.  A file of the embedded file      *)
(* system is its directory, the name without its last extension, the last  *)
(* extension, the pieces of its top-level text and the templates it        *)
(* defines with {{define}}; a file system is the files in WalkDir's        *)
(* (lexical) order.                                                        *)
(***************************************************************************)
MaxFiles == 3

\* the pieces of a template text: literal text, {{.Data.Name}},
\* {{if .Context.Ready}}text{{end}}, an action that fails when executed, and
\* text that does not parse
Lit(text) == [piece |-> "text", text |-> text]
DataName == [piece |-> "{{.Data.Name}}", text |-> NoStr]
IfReady(text) == [piece |-> "{{if .Context.Ready}}", text |-> text]
FailingAction == [piece |-> "{{.Context.Missing}}", text |-> NoStr]
Unparsable == [piece |-> "{{", text |-> NoStr]

TemplateDef(name, pieces) == [name |-> name, pieces |-> pieces]
TemplateFile(dir, stem, ext, pieces, defines) ==
    [dir |-> dir, stem |-> stem, ext |-> ext, pieces |-> pieces, defines |-> defines]

\* fixture/hello.tpl as TestRender expects it to render
HelloTpl ==
    TemplateFile("", "hello", ".tpl", <<IfReady("Ready: "), Lit("Hello "), DataName>>, <<>>)

\* the files a file system may hold, in the order WalkDir visits them
FilePool ==
    <<TemplateFile("", "broken", ".tpl", <<Unparsable>>, <<>>),
      TemplateFile("", "defs", ".tmpl", <<>>,
                   <<TemplateDef("hello", <<Lit("Defined "), DataName>>)>>),
      TemplateFile("", "fail", ".gotmpl", <<FailingAction>>, <<>>),
      TemplateFile("", "hello", ".gotmpl", <<Lit("Gotmpl "), DataName>>, <<>>),
      TemplateFile("", "hello", ".tmpl", <<Lit("Tmpl "), DataName>>, <<>>),
      HelloTpl,
      TemplateFile("", "hello", ".txt", <<Lit("Text")>>, <<>>),
      TemplateFile("z", "hello", ".tpl", <<Lit("Nested "), DataName>>, <<>>)>>

\* the embedded file systems: up to MaxFiles files of the pool
FileSystems ==
    { SelectSeq(FilePool, LAMBDA f : f \in chosen) :
          chosen \in { c \in SUBSET { FilePool[i] : i \in DOMAIN FilePool } :
                           Cardinality(c) <= MaxFiles } }

\* Render[Context] values and the names asked of Execute
Renders == [Context : [Ready : BOOLEAN], Data : [Name : {"World", "Amir"}]]
TemplateNames == {"hello", "hello.tmpl", "fail", "json"}

\* filepath.Ext(path) and filepath.Base(path) of a file
Ext(file) == file.ext
Base(file) == file.stem \o file.ext

\* Load's test on the extension of a file
IsTemplateFile(file) == Ext(file) \in {".tpl", ".tmpl", ".gotmpl"}

\* text/template: (*Template).AddParseTree, which keeps a defined template
\* when the new text is empty
AddParseTree(set, name, pieces) ==
    IF name \in DOMAIN set /\ pieces = <<>> /\ set[name] # <<>>
    THEN set
    ELSE [x \in DOMAIN set \cup {name} |-> IF x = name THEN pieces ELSE set[x]]

RECURSIVE AddDefines(_, _)
AddDefines(set, defines) ==
    IF defines = <<>> THEN set
    ELSE AddDefines(AddParseTree(set, Head(defines).name, Head(defines).pieces),
                    Tail(defines))

\* text/template: ParseFS on the files in order; each file is parsed under
\* its base name, and a text that does not parse ends the parsing
RECURSIVE ParseFS(_, _)
ParseFS(set, files) ==
    IF files = <<>> THEN [set |-> set, err |-> NoError]
    ELSE LET file == Head(files)
         IN  IF \E i \in DOMAIN file.pieces : file.pieces[i] = Unparsable
             THEN [set |-> set, err |-> "template: parse error"]
             ELSE ParseFS(AddDefines(AddParseTree(set, Base(file), file.pieces),
                                     file.defines),
                          Tail(files))

\* NewTemplate: a manager with no template set, on which nothing was called
NewTemplate ==
    [templateSet |-> Nil, loadCalled |-> FALSE, loaded |-> FALSE,
     last |-> [op |-> "none", fileSystem |-> <<>>, name |-> NoStr,
               args |-> [Context |-> [Ready |-> FALSE], Data |-> [Name |-> NoStr]],
               out |-> NoStr, err |-> NoError]]

\* manager.Load: the new template set (unchanged on an error) and the error
Load(m, fileSystem) ==
    LET templateFiles == SelectSeq(fileSystem, IsTemplateFile)
        parsed == ParseFS(<<>>, templateFiles)
    IN  IF Len(templateFiles) = 0
        THEN [templateSet |-> m.templateSet, err |-> "no template files found"]
        ELSE IF parsed.err # NoError
        THEN [templateSet |-> m.templateSet, err |-> parsed.err]
        ELSE [templateSet |-> Ptr(parsed.set), err |-> NoError]

\* text/template: (*Template).Lookup
Lookup(set, name) == IF name \in DOMAIN set THEN Ptr(set[name]) ELSE Nil

\* text/template: (*Template).Execute with the Render value as dot
RECURSIVE ExecuteTemplate(_, _)
ExecuteTemplate(pieces, args) ==
    IF pieces = <<>> THEN [out |-> NoStr, err |-> NoError]
    ELSE LET p == Head(pieces)
             rest == ExecuteTemplate(Tail(pieces), args)
             text == CASE p.piece = "text" -> p.text
                       [] p.piece = "{{.Data.Name}}" -> args.Data.Name
                       [] p.piece = "{{if .Context.Ready}}" ->
                              IF args.Context.Ready THEN p.text ELSE NoStr
                       [] OTHER -> NoStr
         IN  IF p = FailingAction
             THEN [out |-> NoStr, err |-> "template: can't evaluate field"]
             ELSE IF rest.err # NoError THEN rest
             ELSE [out |-> text \o rest.out, err |-> NoError]

\* the first template found among the names with the given extensions
RECURSIVE LookupWithExtensions(_, _, _)
LookupWithExtensions(set, name, exts) ==
    IF exts = <<>> THEN Nil
    ELSE IF Lookup(set, name \o Head(exts)) # Nil THEN Lookup(set, name \o Head(exts))
    ELSE LookupWithExtensions(set, name, Tail(exts))

\* Execute that tries the name with the extensions before the exact name
Execute_ExtensionsFirst(m, name, args) ==
    IF m.templateSet = Nil THEN [out |-> NoStr, err |-> "templates not loaded"]
    ELSE LET set == Deref(m.templateSet)
             t1 == LookupWithExtensions(set, name, <<".tpl", ".tmpl", ".gotmpl">>)
             tmpl == IF t1 = Nil THEN Lookup(set, name) ELSE t1
         IN  IF tmpl = Nil THEN [out |-> NoStr, err |-> "template not found"]
             ELSE ExecuteTemplate(Deref(tmpl), args)

\* manager.Execute: the rendered text and the error
Execute(m, name, args) ==
    IF m.templateSet = Nil THEN [out |-> NoStr, err |-> "templates not loaded"]
    ELSE LET set == Deref(m.templateSet)
             t1 == Lookup(set, name)
             t2 == IF t1 = Nil THEN Lookup(set, name \o ".tpl") ELSE t1
             tmpl == IF t2 = Nil
                     THEN LookupWithExtensions(set, name, <<".tmpl", ".gotmpl">>)
                     ELSE t2
         IN  IF tmpl = Nil THEN [out |-> NoStr, err |-> "template not found"]
             ELSE ExecuteTemplate(Deref(tmpl), args)

(***************************************************************************)
(* package schema: MarshalToSchema.  A struct type is its package path,    *)
(* its name and its fields in declaration order; a field is its Go name,   *)
(* its type, the comma-separated parts of its json tag (one empty part     *)
(* when the field has no json tag) and the description of its jsonschema   *)
(* tag (empty when there is none).                                         *)
(***************************************************************************)
MaxFields == 3

StructField(name, type, json, description) ==
    [Name |-> name, Type |-> type, json |-> json, description |-> description]
StructType(pkgPath, name, fields) == [PkgPath |-> pkgPath, Name |-> name, fields |-> fields]

\* the fields of TestMarshalToSchema's struct x, and fields with the other
\* shapes of tag: omitempty, "-", no tag, and a field that is not exported
FieldA == StructField("A", "string", <<"a">>, "")
FieldB == StructField("B", "string", <<"b">>, "hello")
FieldPool ==
    {FieldA, FieldB,
     StructField("C", "int", <<"c", "omitempty">>, ""),
     StructField("D", "bool", <<"-">>, ""),
     StructField("E", "string", <<"">>, ""),
     StructField("f", "string", <<"f">>, "")}

\* the struct values given to MarshalToSchema: up to MaxFields fields of the
\* pool, each at most once, in any order
StructTypes ==
    { StructType("github.com/mhrlife/goai-kit", "x", fields) :
          fields \in { f \in BoundedSeq(FieldPool, MaxFields) :
                           \A i, j \in DOMAIN f : i # j => f[i] # f[j] } }

\* reflect.StructField: an exported field has an upper-case first letter
IsExported(field) == field.Name \in {"A", "B", "C", "D", "E"}

\* jsonschema: ignoredByJSONTags and requiredFromJSONTags
ignoredByJSONTags(tags) == tags[1] = "-"
requiredFromJSONTags_Always(tags) == TRUE
requiredFromJSONTags(tags) ==
    /\ ~ignoredByJSONTags(tags)
    /\ \A i \in 2..Len(tags) : tags[i] # "omitempty"

\* jsonschema: Reflector.reflectFieldName: the property name ("" for a field
\* that gets no property) and whether it is required
reflectFieldName(field) ==
    IF ignoredByJSONTags(field.json) \/ ~IsExported(field)
    THEN [name |-> "", required |-> FALSE]
    ELSE [name |-> IF field.json[1] # "" THEN field.json[1] ELSE field.Name,
          required |-> requiredFromJSONTags(field.json)]

\* jsonschema: the schema of a field's type with the keywords of its tags
GoTypeSchema(type) ==
    CASE type = "string" -> "string"
      [] type = "int" -> "integer"
      [] type = "bool" -> "boolean"
Property(name, field) ==
    [name |-> name, Type |-> GoTypeSchema(field.Type), Description |-> field.description]

\* jsonschema: Reflector.reflectStructFields: the properties and the
\* required names, in declaration order
RECURSIVE reflectStructFields(_, _)
reflectStructFields(st, fields) ==
    IF fields = <<>> THEN st
    ELSE LET f == reflectFieldName(Head(fields))
             st1 == IF f.name = "" THEN st
                    ELSE [st EXCEPT
                             !.Properties = SelectSeq(@, LAMBDA p : p.name # f.name)
                                                \o <<Property(f.name, Head(fields))>>,
                             !.Required = IF f.required /\ \A i \in DOMAIN @ : @[i] # f.name
                                          THEN Append(@, f.name) ELSE @]
         IN  reflectStructFields(st1, Tail(fields))

\* jsonschema: Reflector.Reflect of a struct value, with DoNotReference
Reflect(x) ==
    reflectStructFields(
        [Version |-> "https://json-schema.org/draft/2020-12/schema",
         ID |-> "https://" \o x.PkgPath \o "/" \o x.Name,
         Type |-> "object", Properties |-> <<>>, Required |-> <<>>,
         AdditionalProperties |-> FALSE],
        x.fields)

\* InferJSONSchema: the reflected schema with its Version cleared
InferJSONSchema(x) == [Reflect(x) EXCEPT !.Version = ""]

\* the JSON object of a property, as a map
PropertyMap(p) ==
    [k \in {"type"} \cup (IF p.Description # "" THEN {"description"} ELSE {}) |->
        IF k = "type" THEN p.Type ELSE p.Description]

\* asMap: the schema marshalled to JSON, which leaves out the keys whose
\* value is empty, and unmarshalled into a map
asMap(s) ==
    LET keys == {"$id", "type", "properties", "additionalProperties"}
                    \cup (IF s.Version # "" THEN {"$schema"} ELSE {})
                    \cup (IF s.Required # <<>> THEN {"required"} ELSE {})
        names == { s.Properties[i].name : i \in DOMAIN s.Properties }
    IN  [k \in keys |->
            CASE k = "$schema" -> s.Version
              [] k = "$id" -> s.ID
              [] k = "type" -> s.Type
              [] k = "additionalProperties" -> s.AdditionalProperties
              [] k = "required" -> s.Required
              [] k = "properties" ->
                     [n \in names |->
                         PropertyMap(CHOOSE p \in { s.Properties[i] : i \in DOMAIN s.Properties } :
                                         p.name = n)]]

\* MarshalToSchema
MarshalToSchema(x) == asMap(InferJSONSchema(x))

\* no call of MarshalToSchema yet
NoSchemaCall == [called |-> FALSE, x |-> StructType("", "", <<>>), m |-> <<>>]

\* the locals of an Invoke call that has not started
IdleFrame ==
    [invokeConfig |-> [Prompt |-> "", Messages |-> <<>>, Callbacks |-> <<>>,
                       SystemPrompt |-> "", ParentRunID |-> Nil, MaxIterations |-> Nil],
     pc |-> "idle",
     cbManager |-> [callbacks |-> <<>>, runID |-> NoID, parentRunID |-> Nil,
                    nestedRunID |-> <<>>, nestedParents |-> <<>>],
     events |-> <<>>, messages |-> <<>>, maxIter |-> 0, iteration |-> 0,
     toolCalls |-> <<>>, idx |-> 0, toolMessages |-> <<>>,
     ret |-> [value |-> ZeroOutput, err |-> NoError],
     apiLog |-> <<>>, execLog |-> <<>>]

\* the agent as CreateAgentWithOutput returns it, and no Invoke yet
AgentReady ==
    /\ agent \in [maxIterations : {DefaultMaxIterations},
                  model : {"gpt-4o"},
                  outputIsString : BOOLEAN,
                  schemas : {OneToolSchemas},
                  tools : {OneToolExecutors},
                  callbacks : {<<>>}]
    /\ invokeConfig = [Prompt |-> "", Messages |-> <<>>, Callbacks |-> <<>>,
                       SystemPrompt |-> "",
                       ParentRunID |-> Nil, MaxIterations |-> Nil]
    /\ pc = "idle"
    /\ cbManager = [callbacks |-> <<>>, runID |-> NoID, parentRunID |-> Nil,
                    nestedRunID |-> <<>>, nestedParents |-> <<>>]
    /\ nextUUID = 1
    /\ events = <<>>
    /\ received = <<>>
    /\ lc = NewLangfuseCallback.lc
    /\ spans = NewLangfuseCallback.spans
    /\ messages = <<>>
    /\ maxIter = 0
    /\ iteration = 0
    /\ toolCalls = <<>>
    /\ idx = 0
    /\ toolMessages = <<>>
    /\ ret = [value |-> ZeroOutput, err |-> NoError]
    /\ apiLog = <<>>
    /\ execLog = <<>>
    /\ usedIDs = {}

Init ==
    /\ AgentReady
    /\ construction = [tools |-> <<>>, built |-> Nil]
    /\ other = IdleFrame
    /\ tpl = NewTemplate
    /\ schemaCall = NoSchemaCall
    /\ hub = NoServer

\* Agent.WithMaxIterations
WithMaxIterations(max) ==
    /\ pc = "idle"
    /\ agent' = [agent EXCEPT !.maxIterations = max]
    /\ UNCHANGED <<invokeConfig, pc, cbManager, nextUUID, events, received, lc, spans,
                   messages, maxIter, iteration,
                   toolCalls, idx, toolMessages, ret, apiLog, execLog, usedIDs, construction, other, tpl, schemaCall, hub>>

\* an Invoke that never looks at InvokeConfig.MaxIterations
EffectiveMaxIter_AgentOnly(config, a) == a.maxIterations

\* Invoke: maxIter := a.maxIterations; if config.MaxIterations != nil { maxIter = *config.MaxIterations }
EffectiveMaxIter(config, a) ==
    IF config.MaxIterations # Nil THEN Deref(config.MaxIterations) ELSE a.maxIterations

\* Agent.Invoke up to the call of executeLoop.  Only configs whose effective
\* cap is at most MaxCap are explored: an agent left at DefaultMaxIterations
\* is invoked with an override.
Invoke(config) ==
    LET allCallbacks == mergeCallbacks(agent.callbacks, config.Callbacks)
        M0 == [CurM EXCEPT
                  !.cm = NewManager(allCallbacks, config.ParentRunID, nextUUID),
                  !.uuid = nextUUID + 1]
        b == buildMessages(config)
        input == IF config.Prompt = "" THEN "messages" ELSE config.Prompt
        cap == EffectiveMaxIter(config, agent)
    IN  /\ pc = "idle"
        /\ cap <= MaxCap
        /\ invokeConfig' = config
        /\ IF b.err # NoError
           THEN /\ InvokeFails(M0, b.err)
                /\ UNCHANGED <<messages, maxIter>>
           ELSE /\ Commit(OnRunStart(M0, agent.model, input, ~agent.outputIsString))
                /\ messages' = b.messages
                /\ maxIter' = cap
                /\ pc' = "loop"
                /\ UNCHANGED ret
        /\ UNCHANGED <<agent, iteration, toolCalls, idx, toolMessages, apiLog,
                       execLog, usedIDs, construction, other, tpl, schemaCall, hub>>

\* a loop that runs one iteration too many
LoopCondition_OffByOne(iter, max) == iter <= max

\* a loop without the iteration limit
LoopCondition_Unbounded(iter, max) == TRUE

\* executeLoop: for iteration < maxIterations
LoopCondition(iter, max) == iter < max

\* executeLoop: the loop condition, and the iteration up to the remote call
LoopHead ==
    /\ pc = "loop"
    /\ IF LoopCondition(iteration, maxIter)
       THEN /\ iteration' = iteration + 1
            /\ Commit(OnGenerationStart(CurM, iteration + 1, agent.model))
            /\ pc' = "calling"
            /\ UNCHANGED ret
       ELSE /\ LoopFails(CurM, ErrMaxIterations, "run", ErrMaxIterations)
            /\ UNCHANGED iteration
    /\ UNCHANGED <<agent, invokeConfig, messages, maxIter, toolCalls, idx,
                   toolMessages, apiLog, execLog, usedIDs, construction, other, tpl, schemaCall, hub>>

\* a loop that also takes a response with one tool call for the final one
NoToolCalls_UpToOne(calls) == Len(calls) <= 1

\* executeLoop: if len(choice.Message.ToolCalls) == 0
NoToolCalls(calls) == Len(calls) = 0

\* executeLoop: the remote call returns.  The endpoint asks for at most
\* MaxTotalToolCalls tool calls during one invocation.
CompletionReturns(o) ==
    /\ pc = "calling"
    /\ ToolCallsRequested(apiLog) + Len(o.tool_calls) <= MaxTotalToolCalls
    /\ apiLog' = Append(apiLog, o)
    /\ IF o.kind = "error"
       THEN /\ LoopFails(CurM, ErrRemote, "generation", ErrAPI)
            /\ UNCHANGED <<messages, toolCalls, idx, toolMessages>>
       ELSE IF o.kind = "empty"
       THEN /\ LoopFails(CurM, ErrNoChoices, "generation", ErrNoChoices)
            /\ UNCHANGED <<messages, toolCalls, idx, toolMessages>>
       ELSE LET M1 == OnGenerationEnd(CurM, o.content, o.tool_calls)
            IN  /\ messages' = Append(messages, AssistantMessage(o.content))
                /\ IF NoToolCalls(o.tool_calls)
                   THEN /\ IF agent.outputIsString
                           THEN InvokeSucceeds(M1, o.content, iteration)
                           ELSE IF ~UnmarshalsToOutput(o.content)
                           THEN LoopFails(M1, ErrJSON, "generation", ErrOutputJSON)
                           ELSE InvokeSucceeds(M1, ParsedOutput(o.content), iteration)
                        /\ UNCHANGED <<toolCalls, idx, toolMessages>>
                   ELSE /\ Commit(M1)
                        /\ toolCalls' = M1.ctx.tool_calls
                        /\ idx' = 1
                        /\ toolMessages' = <<>>
                        /\ pc' = "tools"
                        /\ UNCHANGED ret
    /\ UNCHANGED <<agent, invokeConfig, maxIter, iteration, execLog, usedIDs, construction, other, tpl, schemaCall, hub>>

\* executeToolCalls: one tool call, up to the call of Execute
DispatchToolCall ==
    LET toolCall == toolCalls[idx]
        toolName == toolCall.name
        toolCallID == toolCall.id
        M1 == OnToolCallStart(CurM, toolName, toolCallID)
        foundToolID == FindToolID(agent.schemas, toolName)
        toolCopy == NewToolInstance(agent.tools[foundToolID])
        u == Unmarshal(toolCall.arguments, toolCopy)
    IN  /\ pc = "tools"
        /\ IF ~UnmarshalsToMap(toolCall.arguments)
           THEN /\ LoopFails(OnToolCallEnd(CurM, toolName, NilValue, toolCallID, ErrJSON),
                             ErrToolArgs, "tool", ErrToolArgs)
                /\ UNCHANGED agent
           ELSE IF foundToolID = ""
           THEN /\ LoopFails(OnToolCallEnd(M1, toolName, NilValue, toolCallID, ErrToolNotFound),
                             ErrToolNotFound, "tool", ErrToolNotFound)
                /\ UNCHANGED agent
           ELSE IF u.err # NoError
           THEN /\ LoopFails(OnToolCallEnd(M1, toolName, NilValue, toolCallID, ErrJSON),
                             ErrToolUnmarshal, "tool", ErrToolUnmarshal)
                /\ agent' = StoredThrough(agent, foundToolID, u.tool)
           ELSE /\ Commit(M1)
                /\ agent' = StoredThrough(agent, foundToolID, u.tool)
                /\ pc' = "executing"
                /\ UNCHANGED ret
        /\ UNCHANGED <<invokeConfig, messages, maxIter, iteration,
                       toolCalls, idx, toolMessages, apiLog, execLog, usedIDs, construction, other, tpl, schemaCall, hub>>

\* a dispatch that ignores the error Execute returns
ExecuteFailed_Ignored(o) == FALSE

\* executeToolCalls: if err != nil, after Execute and OnToolCallEnd
ExecuteFailed(o) == o.err

\* a loop that puts the tool messages in front of the history
AppendToolMessages_InFront(history, msgs) == msgs \o history

\* executeLoop: messages = append(messages, toolMessages...)
AppendToolMessages(history, msgs) == history \o msgs

\* executeToolCalls: Execute returns; after the last call of the batch,
\* executeLoop appends the tool messages and goes to the next iteration
ExecuteReturns(o) ==
    LET toolCall == toolCalls[idx]
        M1 == OnToolCallEnd(CurM, toolCall.name, o.result, toolCall.id,
                            IF o.err THEN ErrExecute ELSE NoError)
        r == resultToString(o.result)
        msgs == Append(toolMessages, ToolMessage(r.str, toolCall.id))
        executor == agent.tools[FindToolID(agent.schemas, toolCall.name)]
        toolCopy == Unmarshal(toolCall.arguments, NewToolInstance(executor)).tool
    IN  /\ pc = "executing"
        /\ execLog' = Append(execLog, [pos |-> idx, id |-> toolCall.id,
                                       iteration |-> iteration,
                                       instance |-> toolCopy,
                                       result |-> o.result, err |-> o.err])
        /\ IF ExecuteFailed(o)
           THEN /\ LoopFails(M1, ErrToolFailed, "tool", ErrToolFailed)
                /\ UNCHANGED <<messages, idx, toolMessages>>
           ELSE IF r.err # NoError
           THEN /\ LoopFails(M1, ErrToolResult, "tool", ErrToolResult)
                /\ UNCHANGED <<messages, idx, toolMessages>>
           ELSE /\ Commit(M1)
                /\ UNCHANGED ret
                /\ IF idx < Len(toolCalls)
                   THEN /\ idx' = idx + 1
                        /\ toolMessages' = msgs
                        /\ pc' = "tools"
                        /\ UNCHANGED messages
                   ELSE /\ messages' = AppendToolMessages(messages, msgs)
                        /\ toolMessages' = msgs
                        /\ pc' = "loop"
                        /\ UNCHANGED idx
        /\ UNCHANGED <<agent, invokeConfig, maxIter, iteration, toolCalls, apiLog,
                       usedIDs, construction, other, tpl, schemaCall, hub>>

Next ==
    \/ \E max \in 0..MaxCap : WithMaxIterations(max)
    \/ \E config \in InvokeConfigs : Invoke(config)
    \/ LoopHead
    \/ \E o \in CompletionOutcomes : CompletionReturns(o)
    \/ DispatchToolCall
    \/ \E o \in ExecuteOutcomes : ExecuteReturns(o)

Spec == Init /\ [][Next]_vars

\* the goroutine of Invoke goes on from the loop head; the iteration counter
\* is followed up to MaxCap, which no accepted cap exceeds
LoopStep == iteration <= MaxCap /\ LoopHead

NextLive ==
    \/ \E max \in 0..MaxCap : WithMaxIterations(max)
    \/ \E config \in InvokeConfigs : Invoke(config)
    \/ LoopStep
    \/ \E o \in CompletionOutcomes : CompletionReturns(o)
    \/ DispatchToolCall
    \/ \E o \in ExecuteOutcomes : ExecuteReturns(o)

\* the goroutine of a started Invoke moves on: from the loop head, out of a
\* completion call that returns, to the dispatch of a tool call, out of an
\* execution that returns.  Every such step changes the position pc, and the
\* step is possible at each of the four positions (at the loop head while
\* the iteration counter is followed), so the condition is written on pc.
Moves ==
    /\ pc \in {"loop", "calling", "tools", "executing"}
    /\ pc = "loop" => iteration <= MaxCap
    /\ pc' \in {"loop", "calling", "tools", "executing", "done"} \ {pc}

\* one Invoke whose goroutine keeps running and whose completion calls and
\* tool executions all return: a started invocation that can move on does
SpecLive == Init /\ [][NextLive]_vars /\ WF_pc(Moves)

\* Invoke has returned and its frame is gone: the caller may call Invoke again
\* on the same agent.  The ids the returned call handed out are remembered.
\* The second call is followed after a first call that made one tool call.
InvokeReturned ==
    /\ pc = "done"
    /\ usedIDs = {}
    /\ Cardinality(DOMAIN cbManager.nestedParents) = 1
    /\ usedIDs' = {cbManager.runID} \cup DOMAIN cbManager.nestedParents
    /\ pc' = "idle"
    /\ events' = <<>>
    /\ messages' = <<>>
    /\ maxIter' = 0
    /\ iteration' = 0
    /\ toolCalls' = <<>>
    /\ idx' = 0
    /\ toolMessages' = <<>>
    /\ ret' = [value |-> ZeroOutput, err |-> NoError]
    /\ apiLog' = <<>>
    /\ execLog' = <<>>
    /\ UNCHANGED <<agent, invokeConfig, cbManager, nextUUID, received, lc, spans,
                   construction, other, tpl, schemaCall, hub>>

NextRuns == Next \/ InvokeReturned

\* two Invoke calls on one agent, one after the other
SpecRuns == Init /\ [][NextRuns]_vars

\* Invoke with a prompt only, on an endpoint whose first response asks for the
\* registered tool up to MaxToolCalls times and whose next response is the
\* final answer, and a tool whose Execute returns results of every dynamic type
ToolsConfig ==
    [Prompt |-> "hi", Messages |-> <<>>, Callbacks |-> <<>>, SystemPrompt |-> "",
     ParentRunID |-> Nil, MaxIterations |-> Nil]
ToolsRequest(j, arguments) ==
    [id |-> IF j % 2 = 1 THEN "call_a" ELSE "call_b", name |-> "search",
     arguments |-> arguments]
ToolsCompletionOutcomes ==
    {[kind |-> "choice", content |-> ContentJSON, tool_calls |-> <<>>]}
    \cup { [kind |-> "choice", content |-> NoStr,
            tool_calls |-> [j \in 1..Len(a) |-> ToolsRequest(j, a[j])]] :
               a \in BoundedSeq({ArgsGood, ArgsLimit}, MaxToolCalls) \ {<<>>} }
ToolsExecuteOutcomes ==
    [result : AllResults, err : {FALSE}] \cup [result : {NilValue}, err : {TRUE}]

NextTools ==
    \/ \E max \in {MaxCap} : WithMaxIterations(max)
    \/ \E config \in {ToolsConfig} : Invoke(config)
    \/ LoopHead
    \/ \E o \in ToolsCompletionOutcomes :
            /\ NoToolCalls(o.tool_calls) <=> apiLog # <<>>
            /\ CompletionReturns(o)
    \/ DispatchToolCall
    \/ \E o \in ToolsExecuteOutcomes : ExecuteReturns(o)

\* the tool calls of an invocation, with results of every dynamic type
SpecTools == Init /\ [][NextTools]_vars

\* the lists of callbacks given to WithCallbacks and in InvokeConfig.Callbacks
MaxCallbacks == 2
CallbackPool == {LogA, LogB, Scrubber, Rewriter}
CallbackLists == BoundedSeq(CallbackPool, MaxCallbacks)

\* Agent.WithCallbacks
WithCallbacks(callbacks) ==
    /\ pc = "idle"
    /\ agent' = [agent EXCEPT !.callbacks = callbacks]
    /\ UNCHANGED <<invokeConfig, pc, cbManager, nextUUID, events, received, lc, spans,
                   messages, maxIter, iteration,
                   toolCalls, idx, toolMessages, ret, apiLog, execLog, usedIDs, construction, other, tpl, schemaCall, hub>>

\* Invoke with a prompt and a list of callbacks, on an endpoint whose first
\* response may ask for the registered tool once and whose next response is
\* the final answer
CallbacksConfigs == { [ToolsConfig EXCEPT !.Callbacks = c] : c \in CallbackLists }
CallbacksCompletionOutcomes ==
    { [kind |-> "choice", content |-> c, tool_calls |-> <<>>] : c \in Contents }
    \cup {[kind |-> "choice", content |-> NoStr,
           tool_calls |-> <<ToolsRequest(1, ArgsGood)>>]}
CallbacksExecuteOutcomes == [result : {StringValue("text")}, err : BOOLEAN]

NextCallbacks ==
    \/ \E max \in {MaxCap} : WithMaxIterations(max)
    \/ \E callbacks \in CallbackLists : WithCallbacks(callbacks)
    \/ \E config \in CallbacksConfigs : Invoke(config)
    \/ LoopHead
    \/ \E o \in CallbacksCompletionOutcomes :
            /\ ~NoToolCalls(o.tool_calls) => apiLog = <<>>
            /\ CompletionReturns(o)
    \/ DispatchToolCall
    \/ \E o \in CallbacksExecuteOutcomes : ExecuteReturns(o)

\* an invocation observed by agent-level and invocation-level callbacks
SpecCallbacks == Init /\ [][NextCallbacks]_vars

\* the scheduler takes the running goroutine off and runs the other one: the
\* locals of the two Invoke calls change places; the agent, the uuid source
\* and the callback objects are the same for both
Switch ==
    /\ other.pc # "done"
    /\ other' = [invokeConfig |-> invokeConfig, pc |-> pc, cbManager |-> cbManager,
                 events |-> events, messages |-> messages, maxIter |-> maxIter,
                 iteration |-> iteration, toolCalls |-> toolCalls, idx |-> idx,
                 toolMessages |-> toolMessages, ret |-> ret, apiLog |-> apiLog,
                 execLog |-> execLog]
    /\ invokeConfig' = other.invokeConfig
    /\ pc' = other.pc
    /\ cbManager' = other.cbManager
    /\ events' = other.events
    /\ messages' = other.messages
    /\ maxIter' = other.maxIter
    /\ iteration' = other.iteration
    /\ toolCalls' = other.toolCalls
    /\ idx' = other.idx
    /\ toolMessages' = other.toolMessages
    /\ ret' = other.ret
    /\ apiLog' = other.apiLog
    /\ execLog' = other.execLog
    /\ UNCHANGED <<agent, nextUUID, received, lc, spans, usedIDs, construction, tpl, schemaCall, hub>>

\* two goroutines call Invoke with a prompt on an agent whose agent-level
\* callback is one LangfuseCallback; the endpoint's first response may ask
\* for the registered tool once
NextConcurrent ==
    \/ \E max \in {MaxCap} : other.pc = "idle" /\ WithMaxIterations(max)
    \/ \E callbacks \in {<<Langfuse>>} : other.pc = "idle" /\ WithCallbacks(callbacks)
    \/ \E config \in {ToolsConfig} : Invoke(config)
    \/ LoopHead
    \/ \E o \in CallbacksCompletionOutcomes :
            /\ ~NoToolCalls(o.tool_calls) => apiLog = <<>>
            /\ CompletionReturns(o)
    \/ DispatchToolCall
    \/ \E o \in CallbacksExecuteOutcomes : ExecuteReturns(o)
    \/ Switch

\* concurrent Invoke calls on one agent, interleaved between the steps of the loop
SpecConcurrent == Init /\ [][NextConcurrent]_vars

\* Invoke calls observed by the agent-level LangfuseCallback: with a prompt,
\* with a prompt and a parent run id, with a cap of one iteration, and with no
\* input; the first response may ask for the registered tool once or twice
LangfuseConfigs ==
    {ToolsConfig,
     [ToolsConfig EXCEPT !.ParentRunID = Ptr(CallerRunID)],
     [ToolsConfig EXCEPT !.MaxIterations = Ptr(1)],
     [ToolsConfig EXCEPT !.Prompt = ""]}
LangfuseCompletionOutcomes ==
    {[kind |-> "error", content |-> NoStr, tool_calls |-> <<>>],
     [kind |-> "empty", content |-> NoStr, tool_calls |-> <<>>]}
    \cup { [kind |-> "choice", content |-> c, tool_calls |-> <<>>] : c \in Contents }
    \cup { [kind |-> "choice", content |-> NoStr,
            tool_calls |-> [j \in 1..n |-> ToolsRequest(j, ArgsGood)]] :
                n \in 1..MaxToolCalls }

NextLangfuse ==
    \/ \E max \in {MaxCap} : WithMaxIterations(max)
    \/ \E callbacks \in {<<Langfuse>>} : WithCallbacks(callbacks)
    \/ \E config \in LangfuseConfigs : Invoke(config)
    \/ LoopHead
    \/ \E o \in LangfuseCompletionOutcomes :
            /\ ~NoToolCalls(o.tool_calls) => apiLog = <<>>
            /\ CompletionReturns(o)
    \/ DispatchToolCall
    \/ \E o \in CallbacksExecuteOutcomes : ExecuteReturns(o)
    \/ InvokeReturned

\* Invoke calls on one agent, one after the other, traced by one LangfuseCallback
SpecLangfuse == Init /\ [][NextLangfuse]_vars

\* tpl.Load(fileSystem)
TemplateLoad(fileSystem) ==
    LET r == Load(tpl, fileSystem)
    IN  /\ tpl' = [tpl EXCEPT !.templateSet = r.templateSet,
                              !.loadCalled = TRUE,
                              !.loaded = @ \/ r.err = NoError,
                              !.last = [NewTemplate.last EXCEPT !.op = "Load",
                                            !.fileSystem = fileSystem, !.err = r.err]]
        /\ UNCHANGED <<agent, invokeConfig, pc, cbManager, nextUUID, events, received,
                       lc, spans, messages, maxIter, iteration, toolCalls, idx,
                       toolMessages, ret, apiLog, execLog, usedIDs, construction, other,
                       schemaCall, hub>>

\* tpl.Execute(name, args)
TemplateExecute(name, args) ==
    LET r == Execute(tpl, name, args)
    IN  /\ tpl' = [tpl EXCEPT !.last = [NewTemplate.last EXCEPT !.op = "Execute",
                                            !.name = name, !.args = args,
                                            !.out = r.out, !.err = r.err]]
        /\ UNCHANGED <<agent, invokeConfig, pc, cbManager, nextUUID, events, received,
                       lc, spans, messages, maxIter, iteration, toolCalls, idx,
                       toolMessages, ret, apiLog, execLog, usedIDs, construction, other,
                       schemaCall, hub>>

NextTemplate ==
    \/ \E fileSystem \in FileSystems : TemplateLoad(fileSystem)
    \/ \E name \in TemplateNames, args \in Renders : TemplateExecute(name, args)

\* calls of Load and Execute on one Template, in any order
SpecTemplate == Init /\ [][NextTemplate]_vars

\* m := MarshalToSchema(x)
SchemaMarshal(x) ==
    /\ schemaCall' = [called |-> TRUE, x |-> x, m |-> MarshalToSchema(x)]
    /\ UNCHANGED <<agent, invokeConfig, pc, cbManager, nextUUID, events, received,
                   lc, spans, messages, maxIter, iteration, toolCalls, idx,
                   toolMessages, ret, apiLog, execLog, usedIDs, construction, other, tpl,
                   hub>>

NextSchema == \E x \in StructTypes : SchemaMarshal(x)

\* calls of MarshalToSchema with struct values
SpecSchema == Init /\ [][NextSchema]_vars

\* a call of StartSSEServerWithRoutes, and of StartSSEServer
StartHub(routes, listens) ==
    /\ ~hub.called
    /\ hub' = StartSSEServerWithRoutes(routes, listens)
    /\ UNCHANGED <<agent, invokeConfig, pc, cbManager, nextUUID, events, received,
                   lc, spans, messages, maxIter, iteration, toolCalls, idx,
                   toolMessages, ret, apiLog, execLog, usedIDs, construction, other, tpl,
                   schemaCall>>

StartDefaultHub(listens) ==
    /\ ~hub.called
    /\ hub' = StartSSEServer(1, listens)
    /\ UNCHANGED <<agent, invokeConfig, pc, cbManager, nextUUID, events, received,
                   lc, spans, messages, maxIter, iteration, toolCalls, idx,
                   toolMessages, ret, apiLog, execLog, usedIDs, construction, other, tpl,
                   schemaCall>>

\* a request arrives at the listening server
ServeHTTP(path) ==
    /\ hub.serving
    /\ hub' = [hub EXCEPT !.response = Ptr([path |-> path] @@ MuxServe(hub, path))]
    /\ UNCHANGED <<agent, invokeConfig, pc, cbManager, nextUUID, events, received,
                   lc, spans, messages, maxIter, iteration, toolCalls, idx,
                   toolMessages, ret, apiLog, execLog, usedIDs, construction, other, tpl,
                   schemaCall>>

NextMCP ==
    \/ \E routes \in RouteLists, listens \in BOOLEAN : StartHub(routes, listens)
    \/ \E listens \in BOOLEAN : StartDefaultHub(listens)
    \/ \E path \in RequestPaths : ServeHTTP(path)

\* one MCP server hub and the requests it serves
SpecMCP == Init /\ [][NextMCP]_vars

\* explicit tool names: letters in both cases, and the two separators
NameChars == {"a", "A", "-", " "}
ToolNames == BoundedSeq(NameChars, MaxNameLen) \ {<<>>}
\* type names: upper-case and lower-case letters and a digit; the empty name
\* is that of an unnamed (struct literal) type
TypeNameChars == {"A", "B", "a", "2"}
HTTPClient2Request ==
    <<"H", "T", "T", "P", "C", "l", "i", "e", "n", "t", "2",
      "R", "e", "q", "u", "e", "s", "t">>
TypeNames == BoundedSeq(TypeNameChars, MaxTypeNameLen) \cup {HTTPClient2Request}

\* the argument lists given to CreateAgentWithOutput: one tool named after its
\* type, one or two tools with explicit names, and a tool named after its type
\* followed by one with an explicit name
ToolLists ==
    { <<Tool(t, <<>>)>> : t \in TypeNames }
    \cup { <<Tool(<<"T">>, n)>> : n \in ToolNames }
    \cup { <<Tool(<<"T">>, n1), Tool(<<"T">>, n2)>> : n1, n2 \in ToolNames }
    \cup { <<Tool(<<"A">>, <<>>), Tool(<<"T">>, n)>> : n \in ToolNames }

InitNames ==
    /\ AgentReady
    /\ construction \in [tools : ToolLists, built : {Nil}]
    /\ other = IdleFrame
    /\ tpl = NewTemplate
    /\ schemaCall = NoSchemaCall
    /\ hub = NoServer

\* CreateAgentWithOutput(client, tools...)
Construct ==
    /\ construction.built = Nil
    /\ construction' =
           [construction EXCEPT !.built = Ptr(CreateAgentWithOutput(construction.tools))]
    /\ UNCHANGED <<agent, invokeConfig, pc, cbManager, nextUUID, events, received,
                   lc, spans, messages, maxIter, iteration, toolCalls, idx,
                   toolMessages, ret, apiLog, execLog, usedIDs, other, tpl, schemaCall, hub>>

NextNames == Construct

\* the construction of an agent from a list of tools
SpecNames == InitNames /\ [][NextNames]_vars

(***************************************************************************)
(* Properties.                                                             *)
(***************************************************************************)
Invoked == pc # "idle"
Returned == pc = "done"

\* the positions of the events of a type, and how many there are
EventsOf(type) == {i \in DOMAIN events : events[i].type = type}
Count(type) == Cardinality(EventsOf(type))
LastEvent == events[Len(events)]

\* buildMessages rejects the config: both or neither of Prompt and Messages
BadInput(config) ==
    \/ config.Prompt # "" /\ Len(config.Messages) > 0
    \/ config.Prompt = "" /\ Len(config.Messages) = 0

\* C1 as stated: whatever the input of Invoke, OnRunStart is emitted exactly once
\* and it is the first lifecycle event of the invocation.
C1_RunStartOnceWhateverInput ==
    Returned => /\ Count("RunStart") = 1
                /\ events[1].type = "RunStart"

\* C1 amended: an Invoke whose input is accepted (exactly one of Prompt and
\* Messages) emits OnRunStart exactly once, before every other lifecycle event;
\* an Invoke whose input is rejected never emits OnRunStart.
C1_RunStartOnceFirst ==
    Invoked =>
        IF BadInput(invokeConfig)
        THEN Count("RunStart") = 0
        ELSE /\ Count("RunStart") = 1
             /\ events[1].type = "RunStart"

\* an accepted invocation that went through a tool call and returned
C1_Witness ==
    /\ Returned
    /\ ~BadInput(invokeConfig)
    /\ events[1].type = "RunStart"
    /\ Count("ToolCallStart") >= 1
    /\ Count("GenerationStart") >= 2

\* C2: OnRunEnd is emitted exactly once by an Invoke that returns without error,
\* as the last event and right after the final OnGenerationEnd; it is never
\* emitted by an Invoke that returns an error, nor before Invoke returns.
C2_RunEndOnceOnSuccess ==
    /\ ~Returned => Count("RunEnd") = 0
    /\ Returned /\ ret.err # NoError => Count("RunEnd") = 0
    /\ Returned /\ ret.err = NoError =>
           /\ Count("RunEnd") = 1
           /\ LastEvent.type = "RunEnd"
           /\ Len(events) >= 2
           /\ events[Len(events) - 1].type = "GenerationEnd"
           /\ \A i \in EventsOf("GenerationEnd") : i < Len(events)

\* a successful return in the second iteration, after a tool call
C2_Witness ==
    /\ Returned
    /\ ret.err = NoError
    /\ LastEvent.type = "RunEnd"
    /\ LastEvent.total_iterations = 2
    /\ Count("ToolCallEnd") >= 1

\* C4 as stated: an Invoke given both a Prompt and Messages, or neither, returns
\* an input error and no callback method, OnError included, is invoked.
C4_InputErrorNoCallback ==
    Invoked /\ BadInput(invokeConfig) =>
        /\ Returned
        /\ ret.err \in InputErrors
        /\ events = <<>>

\* C4 amended: an Invoke given both a Prompt and Messages, or neither, returns
\* the input error with the zero output, and the only callback method invoked
\* is OnError, once, with stage "run": no run is started (no OnRunStart), no
\* generation or tool event is emitted.
C4_InputErrorOnlyOnError ==
    Invoked /\ BadInput(invokeConfig) =>
        /\ Returned
        /\ ret.value = ZeroOutput
        /\ ret.err = IF invokeConfig.Prompt # "" THEN ErrBothInputs ELSE ErrNoInput
        /\ Len(events) = 1
        /\ events[1].type = "Error"
        /\ events[1].stage = "run"
        /\ events[1].error = ret.err
        /\ apiLog = <<>>

\* Invoke returned for a config with both a Prompt and Messages
C4_Witness ==
    /\ Returned
    /\ invokeConfig.Prompt # ""
    /\ Len(invokeConfig.Messages) > 0
    /\ ret.err = ErrBothInputs

\* the events of a type that carry a tool-call id, up to position n
ToolEventsUpTo(type, id, n) ==
    {i \in 1..n : events[i].type = type /\ events[i].tool_call_id = id}

\* C3: for every tool-call id reported to the callbacks, each OnToolCallEnd is
\* preceded by an OnToolCallStart of the same id that no earlier OnToolCallEnd
\* has closed, and once Invoke has returned every OnToolCallStart has its
\* OnToolCallEnd.
C3_ToolCallStartEndPaired ==
    \A id \in ToolCallIDs :
        /\ \A n \in DOMAIN events :
               LET starts == Cardinality(ToolEventsUpTo("ToolCallStart", id, n))
                   ends == Cardinality(ToolEventsUpTo("ToolCallEnd", id, n))
               IN  ends <= starts /\ starts <= ends + 1
        /\ Returned =>
               Cardinality(ToolEventsUpTo("ToolCallStart", id, Len(events)))
                   = Cardinality(ToolEventsUpTo("ToolCallEnd", id, Len(events)))

\* a tool call the registry can run: its arguments parse and fit, its name is registered
Dispatchable(call) ==
    /\ call.arguments = ArgsGood
    /\ call.name \in {agent.schemas[id].Name : id \in DOMAIN agent.schemas}

\* every completion call so far returned a response with at least one tool call
EveryResponseCarriesToolCalls ==
    \A i \in DOMAIN apiLog :
        apiLog[i].kind = "choice" /\ Len(apiLog[i].tool_calls) >= 1

\* every tool call asked for so far can be run, and every Execute so far
\* returned no error and a result that has a text form
EveryToolCallSucceeds ==
    /\ \A i \in DOMAIN apiLog :
           \A j \in DOMAIN apiLog[i].tool_calls : Dispatchable(apiLog[i].tool_calls[j])
    /\ \A i \in DOMAIN execLog :
           ~execLog[i].err /\ resultToString(execLog[i].result).err = NoError

\* C5: when the effective cap N is at least 1, every response carries a tool
\* call and every tool call succeeds, Invoke makes exactly N generation steps
\* and returns the iteration-limit error, reported by OnError with stage "run".
C5_IterationLimitAfterNSteps ==
    Returned /\ ~BadInput(invokeConfig) /\ maxIter >= 1
             /\ EveryResponseCarriesToolCalls /\ EveryToolCallSucceeds =>
        /\ Len(apiLog) = maxIter
        /\ Count("GenerationStart") = maxIter
        /\ Count("GenerationEnd") = maxIter
        /\ ret.err = ErrMaxIterations
        /\ ret.value = ZeroOutput
        /\ \E i \in EventsOf("Error") :
               events[i].stage = "run" /\ events[i].error = ErrMaxIterations

\* the cap of 2 is used up by two responses that each carry a tool call
C5_Witness ==
    /\ Returned
    /\ maxIter = 2
    /\ Len(apiLog) = 2
    /\ EveryResponseCarriesToolCalls
    /\ EveryToolCallSucceeds
    /\ ret.err = ErrMaxIterations

\* the same with a cap of 1: one generation step
C5_WitnessCapOne ==
    /\ Returned
    /\ maxIter = 1
    /\ Len(apiLog) = 1
    /\ EveryResponseCarriesToolCalls
    /\ EveryToolCallSucceeds
    /\ ret.err = ErrMaxIterations

\* C6: when the Execute of the k-th tool call of a batch returns an error,
\* Invoke returns an error, no later tool call of the batch is dispatched
\* (no OnToolCallStart, no Execute) and no further generation step is made.
C6_ToolErrorAbortsBatch ==
    \A e \in DOMAIN execLog :
        execLog[e].err =>
            /\ Returned
            /\ ret.err = ErrToolFailed
            /\ ret.value = ZeroOutput
            /\ e = Len(execLog)
            /\ Len(apiLog) = execLog[e].iteration
            /\ Count("GenerationStart") = execLog[e].iteration
            /\ LET lastGen == CHOOSE g \in EventsOf("GenerationEnd") :
                                  \A h \in EventsOf("GenerationEnd") : h <= g
               IN  Cardinality({i \in EventsOf("ToolCallStart") : i > lastGen})
                       = execLog[e].pos

\* the first call of a batch of two fails: the second is never dispatched
C6_Witness ==
    /\ Returned
    /\ Len(toolCalls) = 2
    /\ execLog # <<>>
    /\ execLog[Len(execLog)].err
    /\ execLog[Len(execLog)].pos = 1
    /\ Dispatchable(toolCalls[2])

\* the last completion call returned a final response (no tool calls) whose
\* content is not valid JSON for the declared output type
LastResponseIsBadJSON ==
    /\ apiLog # <<>>
    /\ apiLog[Len(apiLog)].kind = "choice"
    /\ apiLog[Len(apiLog)].tool_calls = <<>>
    /\ apiLog[Len(apiLog)].content = ContentText

\* C7: with a declared non-text output type, a response with zero tool calls
\* whose content is not valid JSON for that type makes Invoke return the parse
\* error with the zero output, emit OnError with stage "generation", and make
\* no further generation step.
C7_OutputParseErrorIsFatal ==
    ~agent.outputIsString /\ LastResponseIsBadJSON =>
        /\ Returned
        /\ ret.err = ErrOutputJSON
        /\ ret.value = ZeroOutput
        /\ \E i \in EventsOf("Error") : events[i].stage = "generation"
        /\ Count("RunEnd") = 0
        /\ Count("GenerationStart") = Len(apiLog)

\* the parse fails in the second iteration, after a successful tool call
C7_Witness ==
    /\ Returned
    /\ ~agent.outputIsString
    /\ LastResponseIsBadJSON
    /\ Len(apiLog) = 2
    /\ ret.err = ErrOutputJSON

\* the ordering pattern as an automaton over event types:
\*   RunStart (GenerationStart GenerationEnd (ToolCallStart ToolCallEnd)*)* (RunEnd | Error)
PatternStep(q, type) ==
    CASE q = "start" /\ type = "RunStart" -> "iteration"
      [] q \in {"iteration", "tools"} /\ type = "GenerationStart" -> "generating"
      [] q = "generating" /\ type = "GenerationEnd" -> "tools"
      [] q = "tools" /\ type = "ToolCallStart" -> "tool"
      [] q = "tool" /\ type = "ToolCallEnd" -> "tools"
      [] q \in {"iteration", "tools"} /\ type \in {"RunEnd", "Error"} -> "end"
      [] OTHER -> "reject"

RECURSIVE PatternState(_)
PatternState(n) ==
    IF n = 0 THEN "start" ELSE PatternStep(PatternState(n - 1), events[n].type)

\* C8: the complete event sequence of an invocation is RunStart, then per
\* iteration GenerationStart, GenerationEnd and zero or more (ToolCallStart,
\* ToolCallEnd) pairs, then exactly one terminal event, RunEnd or OnError,
\* after which no event follows.
C8_EventSequencePattern ==
    Returned => PatternState(Len(events)) = "end"

\* C9: within one invocation OnError is emitted at most once.
C9_ErrorAtMostOnce ==
    Count("Error") <= 1

\* C10: Invoke returns either a result with a nil error, or an error with the
\* zero value of the output type; when it returns an error, an OnError event
\* with a stage tag of run, generation or tool has been emitted before.
C10_ResultOrErrorAndOnError ==
    /\ Returned =>
           \/ ret.err = NoError
           \/ /\ ret.value = ZeroOutput
              /\ \E i \in EventsOf("Error") :
                     /\ events[i].stage \in {"run", "generation", "tool"}
                     /\ events[i].error # NoStr
    /\ Returned /\ ret.err = NoError => Count("Error") = 0
    /\ \A i \in EventsOf("Error") : events[i].stage \in {"run", "generation", "tool"}

\* an error return after a tool call had already succeeded: its result is dropped
C10_Witness ==
    /\ Returned
    /\ ret.err # NoError
    /\ ret.value = ZeroOutput
    /\ \E i \in EventsOf("ToolCallEnd") : events[i].error = NoStr
    /\ Count("Error") >= 1

\* a rejected input: the error return that no loop error precedes
C10_WitnessInputError ==
    /\ Returned
    /\ ret.err \in InputErrors
    /\ Count("Error") >= 1

\* the position of the GenerationStart event of an iteration
GenStartPos(k) == CHOOSE i \in EventsOf("GenerationStart") : events[i].iteration = k

\* the positions after the GenerationStart of iteration k and before the next one
GenSegment(k) ==
    LET g == GenStartPos(k)
        later == {j \in (g + 1)..Len(events) : events[j].type = "GenerationStart"}
        stop == IF later = {}
                THEN Len(events) + 1
                ELSE CHOOSE j \in later : \A h \in later : j <= h
    IN  (g + 1)..(stop - 1)

\* the OnGenerationEnd events among those positions
GenEndsOf(k) == {i \in GenSegment(k) : events[i].type = "GenerationEnd"}

\* every remote completion call so far, and the one in flight, has exactly one
\* OnGenerationStart, carrying its iteration, before it
EveryCallHasItsGenerationStart ==
    LET starts == EventsOf("GenerationStart")
    IN  /\ Cardinality(starts) = Len(apiLog) + (IF pc = "calling" THEN 1 ELSE 0)
        /\ \A k \in 1..Cardinality(starts) :
               Cardinality({i \in starts : events[i].iteration = k}) = 1

C11_WitnessCallError ==
    /\ Returned
    /\ Len(apiLog) = 1
    /\ apiLog[1].kind = "error"
    /\ Count("GenerationEnd") = 0

\* Invoke returned while tool call idx of the last response was being dispatched
ReturnedInBatch ==
    /\ Returned
    /\ apiLog # <<>>
    /\ apiLog[Len(apiLog)].tool_calls = toolCalls
    /\ idx \in DOMAIN toolCalls
    /\ Len(toolMessages) = idx - 1

\* the arguments of the call being dispatched do not parse, or do not fit the tool
ToolArgumentError ==
    ReturnedInBatch /\ toolCalls[idx].arguments \in {ArgsNotJSON, ArgsBadField}

\* Execute ran for the call being dispatched and returned an error
ToolExecutionError ==
    /\ ReturnedInBatch
    /\ execLog # <<>>
    /\ execLog[Len(execLog)].err
    /\ execLog[Len(execLog)].pos = idx
    /\ execLog[Len(execLog)].iteration = iteration

\* C12: every tool-argument-parse error and every tool-execution error is
\* surfaced by an OnToolCallEnd for that tool-call id whose context has the
\* error populated, followed by an OnError with stage "tool"; the invocation
\* then aborts (error return, zero output, no further completion call).
C12_ToolErrorEndThenOnError ==
    ToolArgumentError \/ ToolExecutionError =>
        /\ Len(events) >= 3
        /\ events[Len(events) - 2].type = "ToolCallEnd"
        /\ events[Len(events) - 2].tool_call_id = toolCalls[idx].id
        /\ events[Len(events) - 2].error # NoStr
        /\ events[Len(events) - 1].type = "Error"
        /\ events[Len(events) - 1].stage = "tool"
        /\ ret.err # NoError
        /\ ret.value = ZeroOutput
        /\ Len(apiLog) = iteration

\* the second call of a batch has arguments that are not JSON
C12_Witness ==
    /\ ToolArgumentError
    /\ idx = 2
    /\ toolCalls[idx].arguments = ArgsNotJSON
    /\ ret.err = ErrToolArgs

\* arguments that are JSON but do not fit the tool's struct
C12_WitnessBadField ==
    /\ ToolArgumentError
    /\ toolCalls[idx].arguments = ArgsBadField
    /\ ret.err = ErrToolUnmarshal

\* Execute returned an error
C12_WitnessExecute ==
    /\ ToolExecutionError
    /\ ret.err = ErrToolFailed

\* the tool call of this id has had OnToolCallStart and not yet OnToolCallEnd
ToolCallOpen(id) ==
    Cardinality(ToolEventsUpTo("ToolCallStart", id, Len(events)))
        > Cardinality({i \in ToolEventsUpTo("ToolCallEnd", id, Len(events)) :
                          \E j \in ToolEventsUpTo("ToolCallStart", id, i) : TRUE})

\* C13: the manager's tool-call-id -> nested-run-id map has an entry for a
\* tool-call id iff that tool call has had OnToolCallStart but not yet
\* OnToolCallEnd; the entry is removed once the call completes.
C13_NestedRunEntryOnlyWhileOpen ==
    \A id \in ToolCallIDs :
        id \in DOMAIN cbManager.nestedRunID <=> ToolCallOpen(id)

\* C14: each OnToolCallStart carries a nested run id allocated fresh for that
\* call as run_id and the enclosing run's id as parent_run_id, and the
\* OnToolCallEnd of the same tool call (the event right after it) carries
\* exactly the same run_id and parent_run_id.
C14_ToolCallEndCarriesStartIDs ==
    \A s \in EventsOf("ToolCallStart") :
        /\ events[s].run_id \notin {NoID, CallerRunID, cbManager.runID}
        /\ \A j \in 1..(s - 1) : events[j].run_id # events[s].run_id
        /\ events[s].parent_run_id = cbManager.runID
        /\ IF s = Len(events)
           THEN pc = "executing"
           ELSE /\ events[s + 1].type = "ToolCallEnd"
                /\ events[s + 1].tool_call_id = events[s].tool_call_id
                /\ events[s + 1].run_id = events[s].run_id
                /\ events[s + 1].parent_run_id = events[s].parent_run_id

\* two completed tool calls that reuse one tool-call id: each OnToolCallEnd
\* carries the nested run id of its own OnToolCallStart
C14_Witness ==
    \E s, t \in EventsOf("ToolCallStart") :
        /\ s < t
        /\ t < Len(events)
        /\ events[s].tool_call_id = events[t].tool_call_id
        /\ events[s].run_id # events[t].run_id
        /\ events[t + 1].type = "ToolCallEnd"
        /\ events[t + 1].error = NoStr

\* the OnToolCallEnd events whose tool-call id had no nested-run mapping: no
\* OnToolCallStart was emitted for the id before them
EndsWithoutMapping ==
    {i \in EventsOf("ToolCallEnd") :
        ToolEventsUpTo("ToolCallStart", events[i].tool_call_id, i) = {}}

\* an argument-parse failure is reported by an OnToolCallEnd all the same
ParseFailureIsBroadcast ==
    Returned /\ ret.err = ErrToolArgs =>
        /\ Len(events) >= 3
        /\ events[Len(events) - 2].type = "ToolCallEnd"
        /\ events[Len(events) - 2].tool_call_id = toolCalls[idx].id

\* C15 as stated: an OnToolCallEnd for a tool-call id that has no nested-run
\* mapping is still broadcast, and its context carries no parent_run_id key.
C15_UnmappedEndHasNoParent ==
    /\ ParseFailureIsBroadcast
    /\ \A i \in EndsWithoutMapping : events[i].parent_run_id = NoID

\* C15 amended: an OnToolCallEnd for a tool-call id that has no nested-run
\* mapping is still broadcast; its context carries the invocation's own run id
\* as run_id, and it carries no parent_run_id key unless a ParentRunID was
\* supplied to Invoke, in which case parent_run_id is that value.
C15_UnmappedEndIsRunLevel ==
    /\ ParseFailureIsBroadcast
    /\ \A i \in EndsWithoutMapping :
           /\ events[i].run_id = cbManager.runID
           /\ events[i].parent_run_id = IF invokeConfig.ParentRunID = Nil
                                        THEN NoID
                                        ELSE Deref(invokeConfig.ParentRunID)

\* arguments that are not JSON, in an Invoke that was given a ParentRunID
C15_Witness ==
    /\ Returned
    /\ ret.err = ErrToolArgs
    /\ invokeConfig.ParentRunID # Nil
    /\ \E i \in EndsWithoutMapping : events[i].parent_run_id = CallerRunID

\* the same without a ParentRunID: no parent_run_id key
C15_WitnessNoParent ==
    /\ Returned
    /\ ret.err = ErrToolArgs
    /\ invokeConfig.ParentRunID = Nil
    /\ \E i \in EndsWithoutMapping : events[i].parent_run_id = NoID

RunLevelTypes == {"RunStart", "RunEnd", "GenerationStart", "GenerationEnd", "Error"}

\* C16: every run-level event (RunStart, RunEnd, GenerationStart,
\* GenerationEnd, Error) carries run_id equal to the invocation's run id, and
\* carries parent_run_id iff a ParentRunID was supplied to Invoke, with
\* exactly that value.
C16_RunLevelEventsCarryRunIDs ==
    \A i \in DOMAIN events :
        events[i].type \in RunLevelTypes =>
            /\ cbManager.runID # NoID
            /\ events[i].run_id = cbManager.runID
            /\ events[i].run_id = events[1].run_id
            /\ IF invokeConfig.ParentRunID = Nil
               THEN events[i].parent_run_id = NoID
               ELSE events[i].parent_run_id = Deref(invokeConfig.ParentRunID)

\* a run with a ParentRunID that made a tool call and ended in RunEnd: four of
\* the five event types, after nested ids were handed out
C16_Witness ==
    /\ Returned
    /\ invokeConfig.ParentRunID = Ptr(CallerRunID)
    /\ Count("ToolCallEnd") >= 1
    /\ Count("GenerationEnd") >= 2
    /\ LastEvent.type = "RunEnd"
    /\ LastEvent.parent_run_id = CallerRunID

\* a failed run with a ParentRunID: the Error events
C16_WitnessError ==
    /\ Returned
    /\ invokeConfig.ParentRunID = Ptr(CallerRunID)
    /\ LastEvent.type = "Error"
    /\ LastEvent.parent_run_id = CallerRunID

\* a run without a ParentRunID: no parent_run_id key
C16_WitnessNoParent ==
    /\ Returned
    /\ invokeConfig.ParentRunID = Nil
    /\ LastEvent.type = "RunEnd"
    /\ LastEvent.parent_run_id = NoID

\* the nested run ids the current manager has handed out
NestedIDs == DOMAIN cbManager.nestedParents

CompletionCalls == Len(apiLog) + (IF pc = "calling" THEN 1 ELSE 0)

\* C18: the number of remote completion calls never exceeds the effective
\* iteration cap, which is InvokeConfig.MaxIterations when set and otherwise
\* the agent's maxIterations; if no terminal step occurs within the cap
\* (including a cap of zero or less) the result is the iteration-limit error.
C18_CallsWithinEffectiveCap ==
    Invoked /\ ~BadInput(invokeConfig) =>
        LET cap == IF invokeConfig.MaxIterations # Nil
                   THEN Deref(invokeConfig.MaxIterations)
                   ELSE agent.maxIterations
            most == IF cap > 0 THEN cap ELSE 0
        IN  /\ maxIter = cap
            /\ CompletionCalls <= most
            /\ CompletionCalls = iteration
            /\ Returned /\ EveryResponseCarriesToolCalls /\ EveryToolCallSucceeds =>
                   /\ Len(apiLog) = most
                   /\ ret.err = ErrMaxIterations
                   /\ ret.value = ZeroOutput
            /\ Returned /\ ret.err = ErrMaxIterations =>
                   /\ EveryResponseCarriesToolCalls
                   /\ Len(apiLog) = most

\* the override wins over the agent's own cap: one call, then the limit
C18_Witness ==
    /\ Returned
    /\ agent.maxIterations = 2
    /\ invokeConfig.MaxIterations = Ptr(1)
    /\ Len(apiLog) = 1
    /\ ret.err = ErrMaxIterations

\* no override: the cap set with WithMaxIterations
C18_WitnessAgentCap ==
    /\ Returned
    /\ agent.maxIterations = 2
    /\ invokeConfig.MaxIterations = Nil
    /\ Len(apiLog) = 2
    /\ ret.err = ErrMaxIterations

\* a cap below zero: no call at all
C18_WitnessNegativeCap ==
    /\ Returned
    /\ invokeConfig.MaxIterations = Ptr(-1)
    /\ ~BadInput(invokeConfig)
    /\ apiLog = <<>>
    /\ ret.err = ErrMaxIterations

\* a cap of zero set on the agent
C18_WitnessZeroCap ==
    /\ Returned
    /\ agent.maxIterations = 0
    /\ invokeConfig.MaxIterations = Nil
    /\ ~BadInput(invokeConfig)
    /\ apiLog = <<>>
    /\ ret.err = ErrMaxIterations

\* the Execute of call j of the response of iteration k
ExecEntry(k, j) ==
    CHOOSE e \in DOMAIN execLog : execLog[e].iteration = k /\ execLog[e].pos = j

\* one tool-role message per call of the response of iteration k, in call
\* order: the first n of them, and all of them
ToolMessagesUpTo(k, n) ==
    [j \in 1..n |->
        ToolMessage(resultToString(execLog[ExecEntry(k, j)].result).str,
                    apiLog[k].tool_calls[j].id)]
ToolMessagesOf(k) == ToolMessagesUpTo(k, Len(apiLog[k].tool_calls))

\* the history after n complete iterations
RECURSIVE HistoryAfter(_)
HistoryAfter(n) ==
    IF n = 0
    THEN buildMessages(invokeConfig).messages
    ELSE HistoryAfter(n - 1) \o <<AssistantMessage(apiLog[n].content)>> \o ToolMessagesOf(n)

\* the last GenerationEnd before position p
GenEndBefore(p) ==
    CHOOSE g \in EventsOf("GenerationEnd") :
        /\ g < p
        /\ \A h \in EventsOf("GenerationEnd") : h < p => h <= g

\* the tool events after a GenerationEnd follow the order of its tool calls:
\* call j has its OnToolCallStart at offset 2j-1 and its OnToolCallEnd at 2j,
\* and no call is started after one that ended with an error
DispatchedInOrder ==
    \A p \in EventsOf("ToolCallStart") \cup EventsOf("ToolCallEnd") :
        /\ \E g \in EventsOf("GenerationEnd") : g < p
        /\ LET g == GenEndBefore(p)
               tc == events[g].tool_calls
               j == (p - g + 1) \div 2
           IN  /\ j \in DOMAIN tc
               /\ events[p].tool_call_id = tc[j].id
               /\ events[p].tool_name = tc[j].name
               /\ \A q \in (g + 1)..(p - 1) :
                      /\ events[q].type \in {"ToolCallStart", "ToolCallEnd"}
                      /\ events[q].error = NoStr
               /\ IF (p - g) % 2 = 0
                  THEN /\ events[p].type = "ToolCallEnd"
                       /\ events[p - 1].type = "ToolCallStart"
                  ELSE \/ events[p].type = "ToolCallStart"
                       \/ events[p].error # NoStr

\* the history handed to each generation step, and held while a batch runs
HistoryIsAppended ==
    Invoked /\ ~BadInput(invokeConfig) =>
        /\ pc = "calling" => messages = HistoryAfter(iteration - 1)
        /\ pc = "loop" => messages = HistoryAfter(iteration)
        /\ pc \in {"tools", "executing"} =>
               /\ messages = HistoryAfter(iteration - 1)
                                 \o <<AssistantMessage(apiLog[iteration].content)>>
               /\ toolMessages = ToolMessagesUpTo(iteration, idx - 1)

\* C19: the tool calls of one response are dispatched strictly in the order
\* received and one at a time; when all succeed, the history given to the
\* next generation step is the previous history, then the assistant message,
\* then one tool-role message per call, in call order, each keyed by its
\* tool-call id: the history is only appended to.
C19_DispatchOrderAndHistory ==
    /\ DispatchedInOrder
    /\ HistoryIsAppended

\* a second generation step after a batch of two tool calls with different ids
C19_Witness ==
    /\ pc = "calling"
    /\ iteration = 2
    /\ Len(apiLog[1].tool_calls) = 2
    /\ apiLog[1].tool_calls[1].id # apiLog[1].tool_calls[2].id
    /\ Len(messages) = Len(buildMessages(invokeConfig).messages) + 3
    /\ messages[Len(messages)].role = "tool"
    /\ messages[Len(messages)].tool_call_id = apiLog[1].tool_calls[2].id
    /\ messages[Len(messages) - 1].tool_call_id = apiLog[1].tool_calls[1].id

\* the system prompt as a system message if there is one, then a single user
\* message holding Prompt, or the supplied Messages as they are
FirstHistory ==
    (IF invokeConfig.SystemPrompt # ""
     THEN <<[role |-> "system", content |-> invokeConfig.SystemPrompt,
             tool_call_id |-> NoStr]>>
     ELSE <<>>)
    \o (IF invokeConfig.Prompt # ""
        THEN <<[role |-> "user", content |-> invokeConfig.Prompt,
                tool_call_id |-> NoStr]>>
        ELSE invokeConfig.Messages)

\* C20: the message sequence given to the first generation step is the system
\* prompt as a system message if SystemPrompt is non-empty, followed by either
\* a single user message holding Prompt or the supplied Messages unchanged and
\* in order; the system prompt is added once and not again on later iterations.
C20_FirstHistoryAndOneSystemPrompt ==
    Invoked /\ ~BadInput(invokeConfig) =>
        /\ pc = "calling" /\ iteration = 1 => messages = FirstHistory
        /\ Len(messages) >= Len(FirstHistory)
        /\ SubSeq(messages, 1, Len(FirstHistory)) = FirstHistory
        /\ \A i \in DOMAIN messages :
               i > Len(FirstHistory) => messages[i].role \in {"assistant", "tool"}

\* the second generation step of an Invoke given a system prompt and two
\* messages: the history still starts with the one system message
C20_Witness ==
    /\ pc = "calling"
    /\ iteration = 2
    /\ invokeConfig.SystemPrompt # ""
    /\ Len(invokeConfig.Messages) = 2
    /\ messages[1].role = "system"
    /\ messages[2] = invokeConfig.Messages[1]
    /\ messages[3] = invokeConfig.Messages[2]
    /\ Cardinality({i \in DOMAIN messages : messages[i].role = "system"}) = 1

\* the first generation step of an Invoke given a prompt and no system prompt
C20_WitnessPromptOnly ==
    /\ pc = "calling"
    /\ iteration = 1
    /\ invokeConfig.SystemPrompt = ""
    /\ invokeConfig.Prompt # ""
    /\ Len(messages) = 1
    /\ messages[1].role = "user"

\* C21: a generation step whose response carries zero tool calls is terminal:
\* no generation step or tool dispatch follows it, and on success the returned
\* value is the raw content for the string output type; a response carrying
\* one or more tool calls is never terminal by itself: its calls are dispatched.
C21_ZeroToolCallsIsTerminal ==
    \A k \in DOMAIN apiLog :
        apiLog[k].kind = "choice" =>
            LET g == GenStartPos(k) + 1
            IN  IF apiLog[k].tool_calls = <<>>
                THEN /\ k = Len(apiLog)
                     /\ Returned
                     /\ iteration = k
                     /\ \A e \in DOMAIN execLog : execLog[e].iteration < k
                     /\ \A i \in (g + 1)..Len(events) :
                            events[i].type \in {"RunEnd", "Error"}
                     /\ agent.outputIsString =>
                            /\ ret = [value |-> apiLog[k].content, err |-> NoError]
                            /\ LastEvent.type = "RunEnd"
                            /\ LastEvent.output = apiLog[k].content
                ELSE /\ IF g = Len(events)
                        THEN pc = "tools"
                        ELSE events[g + 1].type \in {"ToolCallStart", "ToolCallEnd"}
                     /\ Returned /\ k = Len(apiLog) => ret.err # NoError

\* a response with tool calls, then one without: the string agent returns its content
C21_Witness ==
    /\ Returned
    /\ agent.outputIsString
    /\ Len(apiLog) = 2
    /\ Len(apiLog[1].tool_calls) >= 1
    /\ apiLog[2].kind = "choice"
    /\ apiLog[2].tool_calls = <<>>
    /\ ret = [value |-> ContentText, err |-> NoError]

\* the typed agent: the zero-tool-call response ends the run with a parse error
C21_WitnessParseError ==
    /\ Returned
    /\ ~agent.outputIsString
    /\ Len(apiLog) = 1
    /\ apiLog[1].kind = "choice"
    /\ apiLog[1].tool_calls = <<>>
    /\ ret.err = ErrOutputJSON

\* the names of the tools the agent's registry holds
RegistryNames == {agent.schemas[id].Name : id \in DOMAIN agent.schemas}

\* an executor runs only for a call whose function name is a registered
\* tool's name, and the calls of the batch already passed had such names
OnlyRegisteredNamesRun ==
    /\ \A e \in DOMAIN execLog :
           apiLog[execLog[e].iteration].tool_calls[execLog[e].pos].name \in RegistryNames
    /\ pc = "executing" => toolCalls[idx].name \in RegistryNames
    /\ pc \in {"tools", "executing"} \/ ReturnedInBatch =>
           \A j \in 1..(idx - 1) : toolCalls[j].name \in RegistryNames

\* the call being dispatched when Invoke returned has a name no tool has
UnknownNameDispatched ==
    ReturnedInBatch /\ toolCalls[idx].name \notin RegistryNames

\* no Execute ran for the call being dispatched
NoExecutorRan ==
    \A e \in DOMAIN execLog :
        ~(execLog[e].iteration = iteration /\ execLog[e].pos = idx)

C22_WitnessParseFirst ==
    /\ UnknownNameDispatched
    /\ toolCalls[idx].arguments = ArgsNotJSON
    /\ ret.err = ErrToolArgs

\* the calls of the newest batch whose tool-role message has been appended
Answered ==
    {e \in DOMAIN execLog :
        /\ execLog[e].iteration = execLog[Len(execLog)].iteration
        /\ execLog[e].pos \in DOMAIN toolMessages}

\* the text of the tool-role message of the call
AnswerText(e) == toolMessages[execLog[e].pos].content

\* C23: the text appended as the tool-role message of a successful tool call
\* is the empty string for a nil result, the value itself for a string or a
\* byte slice, and the JSON serialization of the value for any other result.
C23_ToolMessageText ==
    \A e \in Answered :
        LET result == execLog[e].result
        IN  /\ toolMessages[execLog[e].pos].role = "tool"
            /\ toolMessages[execLog[e].pos].tool_call_id = execLog[e].id
            /\ CASE result.type = "nil" -> AnswerText(e) = ""
                 [] result.type = "string" -> AnswerText(e) = result.val
                 [] result.type = "[]byte" ->
                        AnswerText(e) = BytesToString(result.val)
                 [] OTHER -> /\ Marshal(result).err = NoError
                             /\ AnswerText(e) = Marshal(result).data

\* one batch answered with a string and with a struct, in that order: the
\* string as it is, the struct as JSON
C23_Witness ==
    /\ Len(toolMessages) = 2
    /\ Answered # {}
    /\ toolMessages[1].content = "text"
    /\ toolMessages[2].content = "{\"name\":\"text\",\"next\":null}"

\* a byte slice answered with its characters, and a nil result with ""
C23_WitnessBytesNil ==
    /\ Len(toolMessages) = 2
    /\ Answered # {}
    /\ execLog[Len(execLog)].result = NilValue
    /\ toolMessages[1].content = "hi"
    /\ toolMessages[2].content = ""

\* the arguments of the tool call an Execute belongs to
ArgumentsOf(e) == apiLog[execLog[e].iteration].tool_calls[execLog[e].pos].arguments

\* the value the call's arguments give for a JSON name, or the default
RECURSIVE MemberOr(_, _, _)
MemberOr(members, name, default) ==
    IF members = <<>> THEN default
    ELSE IF members[Len(members)].name = name THEN members[Len(members)].value
    ELSE MemberOr(SubSeq(members, 1, Len(members) - 1), name, default)

\* C30: every tool invocation runs on a new zero-valued instance of the
\* executor's type populated only from that call's JSON arguments: the
\* registered executor is never mutated by Invoke, the agent's tool and schema
\* maps are unchanged by Invoke, and a field one call sets is at its zero value
\* in a later call that omits it.
C30_FreshInstancePerCall ==
    /\ agent.tools = OneToolExecutors
    /\ agent.schemas = OneToolSchemas
    /\ \A e \in DOMAIN execLog :
           LET members == JSONObject(ArgumentsOf(e)).members
               instance == execLog[e].instance
           IN  /\ instance.addr # SearchTool.addr
               /\ instance.type = SearchTool.type
               /\ instance.fields.q = MemberOr(members, "q", StringValue(""))
               /\ instance.fields.limit = MemberOr(members, "limit", IntValue(0))

\* a call that sets limit, then a call that omits it and runs with limit 0,
\* while the registered executor keeps its limit 5
C30_Witness ==
    /\ Len(execLog) >= 2
    /\ ArgumentsOf(1) = ArgsLimit
    /\ ArgumentsOf(2) = ArgsGood
    /\ execLog[1].instance.fields.limit = IntValue(3)
    /\ execLog[2].instance.fields.limit = IntValue(0)
    /\ agent.tools["search"].fields.limit = IntValue(5)

\* the agent's registry once CreateAgentWithOutput has returned
Built == Deref(construction.built)
Constructed == construction.built # Nil

\* the name of a tool, and the name lower-cased with every space and hyphen
\* replaced by an underscore
NameOf(tool) == GetAgentToolInfo(tool).Name
IsNormalized(id, name) ==
    /\ Len(id) = Len(name)
    /\ \A i \in DOMAIN name :
           id[i] = IF name[i] = " " \/ name[i] = "-" THEN "_"
                   ELSE IF IsUpper(name[i]) THEN ToLowerChar(name[i])
                   ELSE name[i]
\* the tools of the argument list whose name normalizes to the id
Normalizing(id) ==
    {i \in DOMAIN construction.tools : IsNormalized(id, NameOf(construction.tools[i]))}

\* C24: a tool's identifier is its name lower-cased with every space and
\* hyphen replaced by an underscore; when tools with distinct names normalize
\* to one identifier, construction succeeds and both registry maps hold, under
\* that identifier, the tool registered last.
C24_NormalizedIDLastWins ==
    Constructed =>
        /\ DOMAIN Built.tools = DOMAIN Built.schemas
        /\ \A i \in DOMAIN construction.tools :
               \E id \in DOMAIN Built.tools : i \in Normalizing(id)
        /\ \A id \in DOMAIN Built.tools :
               /\ Normalizing(id) # {}
               /\ LET last == CHOOSE i \in Normalizing(id) :
                                  \A j \in Normalizing(id) : j <= i
                  IN  /\ Built.tools[id] = construction.tools[last]
                      /\ Built.schemas[id].ID = id
                      /\ Built.schemas[id].Name = NameOf(construction.tools[last])

\* two tools named "a-" and "A ": one entry, under "a_", for the second
C24_Witness ==
    /\ Constructed
    /\ construction.tools = <<Tool(<<"T">>, <<"a", "-">>), Tool(<<"T">>, <<"A", " ">>)>>
    /\ DOMAIN Built.tools = {<<"a", "_">>}
    /\ Built.tools[<<"a", "_">>].Name = <<"A", " ">>
    /\ Built.schemas[<<"a", "_">>].Name = <<"A", " ">>

\* the upper-case letters of a type name that get an underscore: not the
\* first character, and the previous or the next character is lower-case
Marked(typeName) ==
    {k \in 2..Len(typeName) :
        /\ IsUpper(typeName[k])
        /\ \/ IsLower(typeName[k - 1])
           \/ k < Len(typeName) /\ IsLower(typeName[k + 1])}
\* how many underscores are inserted up to character i
Inserted(typeName, i) == Cardinality({k \in Marked(typeName) : k <= i})
\* name is typeName with an underscore before each marked letter, lower-cased
IsDerivedName(name, typeName) ==
    IF typeName = <<>> THEN name = UnnamedTool
    ELSE /\ Len(name) = Len(typeName) + Cardinality(Marked(typeName))
         /\ \A i \in DOMAIN typeName :
                /\ name[i + Inserted(typeName, i)] = ToLowerChar(typeName[i])
                /\ i \in Marked(typeName) => name[i + Inserted(typeName, i) - 1] = "_"

HTTPClient2RequestName ==
    <<"h", "t", "t", "p", "_", "c", "l", "i", "e", "n", "t", "2", "_",
      "r", "e", "q", "u", "e", "s", "t">>

\* C25: a tool that sets no explicit name gets a name derived from its type
\* name by inserting an underscore before each upper-case letter (other than
\* the first character) whose previous character is lower-case or whose next
\* character is lower-case, then lower-casing; HTTPClient2Request yields
\* http_client2_request, and an empty type name yields unnamed_tool.
C25_NameFromTypeName ==
    Constructed =>
        \A id \in DOMAIN Built.tools :
            LET tool == Built.tools[id]
                name == Built.schemas[id].Name
            IN  tool.Name = <<>> =>
                    /\ IsDerivedName(name, tool.typeName)
                    /\ tool.typeName = HTTPClient2Request => name = HTTPClient2RequestName
                    /\ tool.typeName = <<>> => name = UnnamedTool

\* the tool of type HTTPClient2Request is registered as http_client2_request
C25_Witness ==
    /\ Constructed
    /\ construction.tools = <<Tool(HTTPClient2Request, <<>>)>>
    /\ HTTPClient2RequestName \in DOMAIN Built.schemas
    /\ Built.schemas[HTTPClient2RequestName].Name = HTTPClient2RequestName

\* the tool of an unnamed type is registered as unnamed_tool
C25_WitnessUnnamed ==
    /\ Constructed
    /\ construction.tools = <<Tool(<<>>, <<>>)>>
    /\ Built.schemas[UnnamedTool].Name = UnnamedTool

\* the names of a list of callbacks are pairwise different
DistinctNames(callbacks) ==
    \A i, j \in DOMAIN callbacks : callbacks[i].name = callbacks[j].name => i = j

\* the calls the callbacks received for event k, in order
DeliveriesOf(k) == SelectSeq(received, LAMBDA call : call.event = k)

\* no two callbacks with one name are called for one event
NoNameFiresTwice ==
    \A k \in DOMAIN events :
        DistinctNames([j \in DOMAIN DeliveriesOf(k) |-> DeliveriesOf(k)[j].cb])

\* the invocation-level callbacks in their order, then the agent-level
\* callbacks, in their order, whose name no invocation-level callback has
MergedAsClaimed ==
    LET invokeNames == {invokeConfig.Callbacks[i].name : i \in DOMAIN invokeConfig.Callbacks}
    IN  invokeConfig.Callbacks
        \o SelectSeq(agent.callbacks, LAMBDA cb : cb.name \notin invokeNames)

C26_WitnessSameNameTwice ==
    /\ Returned
    /\ invokeConfig.Callbacks = <<LogA, LogB>>
    /\ ~NoNameFiresTwice

\* C27: a callback that modifies the event context it receives cannot change
\* the context the other callbacks observe for that event, and no callback
\* can change which events the loop emits next: every callback gets the
\* context the manager built, and the loop dispatches the tool calls the
\* endpoint returned.
C27_CallbacksCannotInterfere ==
    /\ \A i \in DOMAIN received :
           /\ received[i].event \in DOMAIN events
           /\ received[i].ctx = events[received[i].event]
    /\ pc \in {"tools", "executing"} /\ apiLog # <<>>
           => toolCalls = apiLog[Len(apiLog)].tool_calls

\* C28: each event method of the manager calls the corresponding method of
\* every registered callback exactly once, in list order; with no callback
\* registered it calls nothing and returns.
C28_EveryCallbackOnceInOrder ==
    /\ \A k \in DOMAIN events :
           LET calls == DeliveriesOf(k)
           IN  /\ Len(calls) = Len(cbManager.callbacks)
               /\ \A j \in DOMAIN calls :
                      /\ j \in DOMAIN cbManager.callbacks
                      /\ calls[j].cb = cbManager.callbacks[j]
                      /\ calls[j].method = events[k].type
    /\ \A i, j \in DOMAIN received :
           /\ received[i].event \in DOMAIN events
           /\ i < j => received[i].event <= received[j].event

\* an invocation with a tool call, observed by two callbacks: two calls per event
C28_Witness ==
    /\ Returned
    /\ Len(cbManager.callbacks) = 2
    /\ Count("ToolCallEnd") = 1
    /\ Count("RunEnd") = 1
    /\ Len(received) = 2 * Len(events)
    /\ received[1].cb = cbManager.callbacks[1]
    /\ received[2].cb = cbManager.callbacks[2]

\* an invocation with a tool call and no callback: it returns its result
C28_WitnessNoCallbacks ==
    /\ Returned
    /\ ret.err = NoError
    /\ cbManager.callbacks = <<>>
    /\ Count("ToolCallEnd") = 1
    /\ received = <<>>

(***************************************************************************)
(* C29: concurrent Invoke calls on one agent                               *)
(***************************************************************************)

\* the root spans the agent-level LangfuseCallback has started
RootSpans == { s \in DOMAIN spans : spans[s].name = "agent.run" }

\* the two Invoke calls have both returned
BothReturned == pc = "done" /\ other.pc = "done"

\* C29: concurrent Invoke calls on the same agent share no mutable state, so
\* under every interleaving each invocation does what it does when it runs
\* alone: what its events make the agent's callbacks record hangs under the
\* root span of its own run and of no other run, and when both invocations
\* have returned the root span of each has been ended exactly once.
C29_ConcurrentInvocationsShareNothing ==
    /\ \A s \in DOMAIN spans :
           spans[s].parent \in RootSpans => spans[spans[s].parent].run = spans[s].run
    /\ BothReturned => \A s \in RootSpans : spans[s].ended = 1

(***************************************************************************)
(* C31, C37, C38: the spans of LangfuseCallback                            *)
(***************************************************************************)

\* the invocation is observed by the LangfuseCallback and has no parent run
Observed == Invoked /\ cbManager.callbacks = <<Langfuse>>
TopLevel == cbManager.parentRunID = Nil

\* the spans the events of the current invocation have started, by kind
OwnSpans == { s \in DOMAIN spans : spans[s].run = cbManager.runID }
OwnRootSpans == { s \in OwnSpans : spans[s].name = "agent.run" }
OwnGenerationSpans == { s \in OwnSpans : spans[s].name = "llm.generation" }
OwnToolSpans == { s \in OwnSpans : spans[s].name = "tool.search" }

\* the trace span is the first span, and one root span of the invocation is
\* its child and the parent of the invocation's generation and tool spans
OneRootSpanOverChildren ==
    /\ Cardinality(OwnRootSpans) = 1
    /\ \A r \in OwnRootSpans :
           /\ spans[r].parent = Deref(NewLangfuseCallback.lc.traceSpan)
           /\ \A s \in OwnGenerationSpans \cup OwnToolSpans : spans[s].parent = r

\* one generation span per OnGenerationStart, one tool span per OnToolCallStart
OneSpanPerStart ==
    /\ Cardinality(OwnGenerationSpans) = Count("GenerationStart")
    /\ Cardinality(OwnToolSpans) = Count("ToolCallStart")
    /\ OwnSpans = OwnRootSpans \cup OwnGenerationSpans \cup OwnToolSpans

C31_WitnessSecondRun ==
    /\ Observed /\ TopLevel /\ Returned
    /\ usedIDs # {}
    /\ Cardinality(RootSpans) = 2
    /\ Cardinality(OwnGenerationSpans) = 1

(***************************************************************************)
(* C32: Template Load and Execute                                          *)
(***************************************************************************)

\* the name Execute is to resolve the requested name to: the first of the
\* name, name.tpl, name.tmpl and name.gotmpl that the template set holds
Resolved(set, name) ==
    IF name \in DOMAIN set THEN Ptr(name)
    ELSE IF (name \o ".tpl") \in DOMAIN set THEN Ptr(name \o ".tpl")
    ELSE IF (name \o ".tmpl") \in DOMAIN set THEN Ptr(name \o ".tmpl")
    ELSE IF (name \o ".gotmpl") \in DOMAIN set THEN Ptr(name \o ".gotmpl")
    ELSE Nil

LastWas(op) == tpl.last.op = op

\* C32: Execute succeeds only after a successful Load; it resolves the name by
\* trying the exact name, then name.tpl, name.tmpl and name.gotmpl, and what it
\* returns is the rendering of the first one found with the given Context and
\* Data; it returns an error when Load was never called or no candidate
\* exists; Load returns an error when the file system holds no template file.
C32_ExecuteResolvesAfterLoad ==
    /\ LastWas("Execute") =>
           /\ tpl.last.err = NoError => tpl.loaded
           /\ ~tpl.loadCalled => tpl.last.err # NoError
           /\ tpl.templateSet # Nil =>
                  LET set == Deref(tpl.templateSet)
                      found == Resolved(set, tpl.last.name)
                  IN  IF found = Nil
                      THEN tpl.last.err # NoError
                      ELSE [out |-> tpl.last.out, err |-> tpl.last.err]
                               = ExecuteTemplate(set[Deref(found)], tpl.last.args)
    /\ LastWas("Load") =>
           /\ (\A i \in DOMAIN tpl.last.fileSystem :
                   ~IsTemplateFile(tpl.last.fileSystem[i])) => tpl.last.err # NoError
           /\ tpl.last.err = NoError => tpl.templateSet # Nil

\* TestRender's second call: hello resolves to hello.tpl although hello.tmpl
\* and hello.gotmpl are loaded too
C32_Witness ==
    /\ LastWas("Execute")
    /\ tpl.last.name = "hello"
    /\ tpl.last.args = [Context |-> [Ready |-> TRUE], Data |-> [Name |-> "Amir"]]
    /\ tpl.templateSet # Nil
    /\ DOMAIN Deref(tpl.templateSet) = {"hello.tpl", "hello.tmpl", "hello.gotmpl"}
    /\ tpl.last.out = "Ready: Hello Amir"
    /\ tpl.last.err = NoError

\* a template defined under the exact name is found before hello.tpl
C32_WitnessExactName ==
    /\ LastWas("Execute")
    /\ tpl.last.name = "hello"
    /\ tpl.templateSet # Nil
    /\ {"hello", "hello.tpl"} \subseteq DOMAIN Deref(tpl.templateSet)
    /\ tpl.last.out = "Defined World"

\* Execute before any Load, Execute of a name with no candidate, and Load of
\* a file system with no template file
C32_WitnessNotLoaded ==
    LastWas("Execute") /\ ~tpl.loadCalled /\ tpl.last.err = "templates not loaded"
C32_WitnessNotFound ==
    LastWas("Execute") /\ tpl.loaded /\ tpl.last.err = "template not found"
C32_WitnessNoTemplateFile ==
    /\ LastWas("Load")
    /\ Len(tpl.last.fileSystem) = 1
    /\ tpl.last.err = "no template files found"

(***************************************************************************)
(* C33: MarshalToSchema of a struct value                                  *)
(***************************************************************************)

\* the returned map, the names of a list of fields, and the required list
SchemaMap == schemaCall.m
JSONName(field) == IF field.json[1] # "" THEN field.json[1] ELSE field.Name
NamesOf(fields) == [i \in DOMAIN fields |-> JSONName(fields[i])]
RequiredOf(m) == IF "required" \in DOMAIN m THEN m["required"] ELSE <<>>

\* a field with a json tag that names it
JSONTagged(field) == field.json[1] \notin {"", "-"}
\* a field that is marshalled: exported and not excluded by json:"-"
Marshalled(field) == IsExported(field) /\ field.json[1] # "-"
\* a field whose json tag carries the omitempty option
OmitEmpty(field) == \E i \in 2..Len(field.json) : field.json[i] = "omitempty"

\* an object schema with no schema-version key and additionalProperties false
ObjectSchemaShape(m) ==
    /\ "$schema" \notin DOMAIN m
    /\ m["type"] = "object"
    /\ m["additionalProperties"] = FALSE

\* the property of the field is there under the name, with the description
\* of the jsonschema tag when there is one
HasProperty(m, field) ==
    /\ JSONName(field) \in DOMAIN m["properties"]
    /\ IF field.description # ""
       THEN /\ "description" \in DOMAIN m["properties"][JSONName(field)]
            /\ m["properties"][JSONName(field)]["description"] = field.description
       ELSE "description" \notin DOMAIN m["properties"][JSONName(field)]

C33_WitnessOmitEmpty ==
    /\ schemaCall.called
    /\ Len(schemaCall.x.fields) = 3
    /\ OmitEmpty(schemaCall.x.fields[2])
    /\ DOMAIN SchemaMap["properties"] = {"b", "c", "a"}
    /\ RequiredOf(SchemaMap) = <<"b", "a">>

(***************************************************************************)
(* C34: nothing is retried                                                 *)
(***************************************************************************)

\* a completion call that failed or came back empty, an execution that
\* failed or whose result has no string form, an OnToolCallEnd that carries
\* an error, an OnError
CallFailed(k) == apiLog[k].kind \in {"error", "empty"}
ExecutionFailed(e) ==
    execLog[e].err \/ resultToString(execLog[e].result).err # NoError
ErrorReported ==
    \E i \in DOMAIN events :
        \/ events[i].type = "Error"
        \/ events[i].type = "ToolCallEnd" /\ events[i].error # NoStr

\* the number of executions started so far
Executions == Len(execLog) + (IF pc = "executing" THEN 1 ELSE 0)

\* C34: nothing is retried: each tool call of a response is executed at most
\* once, each iteration makes exactly one completion call, and after the
\* first error of any kind (remote call, empty response, parse, tool,
\* iteration limit) the invocation has returned its error, so that no
\* further completion call and no further tool execution happens.
C34_NothingIsRetried ==
    /\ \A e1, e2 \in DOMAIN execLog :
           (execLog[e1].iteration = execLog[e2].iteration
               /\ execLog[e1].pos = execLog[e2].pos) => e1 = e2
    /\ \A e \in DOMAIN execLog :
           /\ execLog[e].iteration \in DOMAIN apiLog
           /\ execLog[e].pos \in DOMAIN apiLog[execLog[e].iteration].tool_calls
    /\ CompletionCalls = iteration
    /\ Count("GenerationStart") = iteration
    /\ Executions <= Count("ToolCallStart")
    /\ \A k \in DOMAIN apiLog : CallFailed(k) => k = Len(apiLog) /\ ErrorReported
    /\ \A e \in DOMAIN execLog :
           ExecutionFailed(e) =>
               /\ e = Len(execLog)
               /\ execLog[e].iteration = Len(apiLog)
               /\ ErrorReported
    /\ ErrorReported =>
           /\ Returned
           /\ ret.err # NoError
           /\ ret.value = ZeroOutput
           /\ LET first == CHOOSE i \in DOMAIN events :
                               /\ events[i].type = "Error"
                                     \/ (events[i].type = "ToolCallEnd" /\ events[i].error # NoStr)
                               /\ \A j \in 1..(i - 1) :
                                      ~(\/ events[j].type = "Error"
                                        \/ events[j].type = "ToolCallEnd"
                                               /\ events[j].error # NoStr)
              IN  \A j \in DOMAIN events :
                      j > first => events[j].type = "Error"

\* the second execution of a batch failed after the first succeeded: one
\* completion call and two executions, and the invocation returned the error
C34_Witness ==
    /\ Returned
    /\ Len(apiLog) = 1
    /\ Len(execLog) = 2
    /\ ~ExecutionFailed(1)
    /\ execLog[2].err
    /\ ret.err = ErrToolFailed

\* the second completion call failed, and the iteration limit was reached
C34_WitnessRemote ==
    Returned /\ Len(apiLog) = 2 /\ CallFailed(2) /\ Len(execLog) = 1
C34_WitnessLimit ==
    Returned /\ ret.err = ErrMaxIterations /\ Len(apiLog) = 2 /\ Len(execLog) = 2

(***************************************************************************)
(* C35: Invoke returns                                                     *)
(***************************************************************************)

\* C35: provided every completion call and every tool execution returns,
\* every Invoke eventually returns, with a result or with an error, whatever
\* the iteration cap and the sequence of responses.
C35_InvokeEventuallyReturns == Invoked ~> Returned

\* an invocation whose every response asked for a tool returned at its cap
C35_Witness ==
    /\ Returned
    /\ maxIter = MaxCap
    /\ iteration = MaxCap
    /\ EveryResponseCarriesToolCalls
    /\ ret.err = ErrMaxIterations

\* an invocation that returned a result after a tool call
C35_WitnessResult ==
    Returned /\ ret.err = NoError /\ Len(execLog) = 1 /\ iteration = 2

(***************************************************************************)
(* C36: the iteration numbers of the events                                *)
(***************************************************************************)
\* the OnGenerationStart events emitted up to position i
GenerationStartsUpTo(i) == {j \in EventsOf("GenerationStart") : j <= i}

\* C36: the iteration numbers carried by the OnGenerationStart events of one
\* invocation are 1, 2, 3, ... without gap or repeat, and the
\* total_iterations carried by OnRunEnd is the number of OnGenerationStart
\* events of the invocation.
C36_IterationsCountGenerations ==
    /\ \A i \in EventsOf("GenerationStart") :
           events[i].iteration = Cardinality(GenerationStartsUpTo(i))
    /\ \A i \in EventsOf("RunEnd") :
           /\ events[i].total_iterations = Count("GenerationStart")
           /\ events[i].total_iterations = Cardinality(GenerationStartsUpTo(i))

\* a successful invocation that used every iteration its cap allows
C36_Witness ==
    /\ Returned
    /\ ret.err = NoError
    /\ Count("GenerationStart") = MaxCap
    /\ \A k \in 1..MaxCap :
           \E i \in EventsOf("GenerationStart") : events[i].iteration = k
    /\ LastEvent.type = "RunEnd"
    /\ LastEvent.total_iterations = MaxCap

\* an invocation that ran into its iteration limit emits no OnRunEnd
C36_WitnessLimit ==
    /\ Returned
    /\ ret.err = ErrMaxIterations
    /\ Count("GenerationStart") = MaxCap
    /\ Count("RunEnd") = 0

(***************************************************************************)
(* C37: the spans of a LangfuseCallback when Invoke returns                *)
(***************************************************************************)
\* the first Invoke that the LangfuseCallback observes
FirstObserved == Observed /\ usedIDs = {}
Ended1(s) == spans[s].ended >= 1
OpenSpans == {s \in DOMAIN spans : ~Ended1(s)}

\* C37: when an Invoke observed by a newly created LangfuseCallback returns,
\* successfully or with an error, with or without a parent run id, every span
\* the callback has started (trace span, root span, generation spans, tool
\* spans) has been ended.
C37_EverySpanEndedAtReturn ==
    FirstObserved /\ Returned => OpenSpans = {}

\* the same, for the invocations without a parent run id and for those that
\* return an error
C37_EndedAtTopLevelOrFailedReturn ==
    FirstObserved /\ Returned /\ (TopLevel \/ ret.err # NoError) => OpenSpans = {}

\* a top-level invocation returned after a tool call and every span is ended
C37_WitnessTopLevel ==
    /\ FirstObserved /\ Returned /\ TopLevel /\ ret.err = NoError
    /\ OwnToolSpans # {} /\ OpenSpans = {}

\* an invocation with a parent run id returned an error: the trace span is ended
C37_WitnessNestedFailed ==
    /\ FirstObserved /\ Returned /\ ~TopLevel /\ ret.err # NoError
    /\ OpenSpans = {}

\* an invocation with a parent run id returned its result: the trace span is open
C37_WitnessNestedOpen ==
    /\ FirstObserved /\ Returned /\ ~TopLevel /\ ret.err = NoError
    /\ OpenSpans = {1}

(***************************************************************************)
(* C38: one LangfuseCallback over successive invocations                   *)
(***************************************************************************)
NoSpanEndedTwice == \A s \in DOMAIN spans : spans[s].ended <= 1

\* the spans a step starts, and whether the parent of one had ended before
NewSpans == DOMAIN spans' \ DOMAIN spans
StartedUnderEnded(s) ==
    /\ spans'[s].parent \in DOMAIN spans
    /\ spans[spans'[s].parent].ended >= 1
NoSpanStartedUnderEnded == \A s \in NewSpans : ~StartedUnderEnded(s)

\* C38: over any sequence of invocations observed by the same
\* LangfuseCallback instance, no span is ended more than once and no span is
\* started as a child of a span that has already ended.
C38_SpansEndedOnceUnderLiveParents ==
    [](NoSpanEndedTwice) /\ [][NoSpanStartedUnderEnded]_vars

\* the same within the first invocation the callback observes
C38_FirstInvocationSpans ==
    [](usedIDs = {} => NoSpanEndedTwice)
        /\ [][usedIDs = {} => NoSpanStartedUnderEnded]_vars

\* the second invocation returned its result: the trace span was ended twice
\* and the second root span hangs under it
C38_WitnessSecondRun ==
    /\ Observed /\ Returned /\ usedIDs # {}
    /\ ret.err = NoError
    /\ spans[1].ended = 2
    /\ \A r \in RootSpans : spans[r].parent = 1 /\ spans[r].ended = 1
    /\ Cardinality(RootSpans) = 2

(***************************************************************************)
(* C39: the routes of the MCP server hub                                   *)
(***************************************************************************)
Routes == hub.routes
BaseOf(i) == BasePath(Routes[i].Path)
DistinctBasePaths ==
    \A i, j \in DOMAIN Routes : BaseOf(i) = BaseOf(j) => i = j
Registered(pattern, handler) ==
    pattern \in DOMAIN hub.handlers /\ hub.handlers[pattern] = handler
RouteSSEServer(i) == NewSSEServer(Routes[i].Server, BaseOf(i))

\* a call with no route returns the error and registers nothing
NoRouteIsAnError ==
    /\ hub.err = ErrNoRoutes
    /\ ~hub.panicked /\ ~hub.serving
    /\ DOMAIN hub.handlers = {}

\* every route's handlers are registered at its base path + "/sse" and
\* + "/message", which are the endpoints logged and listed, and nothing else is
HandlersUnderBasePaths ==
    /\ ~hub.panicked
    /\ \A i \in DOMAIN Routes :
          /\ Registered(BaseOf(i) \o SSEEndpoint, SSEHandler(RouteSSEServer(i)))
          /\ Registered(BaseOf(i) \o MessageEndpoint, MessageHandler(RouteSSEServer(i)))
          /\ hub.log[i] = RouteInfo(BaseOf(i))
    /\ DOMAIN hub.handlers =
          {Slash} \cup { BaseOf(i) \o e : i \in DOMAIN Routes,
                                          e \in {SSEEndpoint, MessageEndpoint} }

\* C39: StartSSEServerWithRoutes returns an error when given zero routes;
\* otherwise, for every given route, the SSE handler is registered at exactly
\* that route's normalized base path + "/sse" and the message handler at base
\* path + "/message" (the endpoints it logs and its index endpoint reports),
\* so that any number of routes with distinct base paths can be registered
\* together.
C39_EveryRouteUnderItsBasePath ==
    hub.called =>
        IF Routes = <<>> THEN NoRouteIsAnError
        ELSE DistinctBasePaths => HandlersUnderBasePaths

\* what the call does: one route is registered with its message handler under
\* its base path and its SSE handler at "/default/sse"; a second route panics
C39_SSEHandlerAtDefaultSSE ==
    hub.called =>
        IF Routes = <<>> THEN NoRouteIsAnError
        ELSE IF Len(Routes) >= 2 THEN hub.panicked /\ ~hub.serving
        ELSE /\ ~hub.panicked
             /\ Registered(DefaultPath \o SSEEndpoint, SSEHandler(RouteSSEServer(1)))
             /\ Registered(BaseOf(1) \o MessageEndpoint, MessageHandler(RouteSSEServer(1)))
             /\ hub.log = <<RouteInfo(BaseOf(1))>>
             /\ DOMAIN hub.handlers =
                    {Slash, DefaultPath \o SSEEndpoint, BaseOf(1) \o MessageEndpoint}

\* the index endpoint lists /a/sse, and a request to /a/sse is answered 404
C39_WitnessNotFound ==
    /\ hub.serving
    /\ Len(Routes) = 1 /\ BaseOf(1) = <<"/", "a">>
    /\ hub.response # Nil
    /\ Deref(hub.response).path = BaseOf(1) \o SSEEndpoint
    /\ Deref(hub.response).status = 404

\* two routes with different base paths: the call panicked
C39_WitnessPanic ==
    /\ hub.called /\ Len(Routes) = 2 /\ DistinctBasePaths
    /\ hub.panicked

\* the route of StartSSEServer is served under /default
C39_WitnessDefault ==
    /\ hub.serving
    /\ Routes = <<ServerRoute(DefaultPath, 1)>>
    /\ HandlersUnderBasePaths
    /\ hub.response # Nil
    /\ Deref(hub.response).path = DefaultPath \o SSEEndpoint
    /\ Deref(hub.response).by = Ptr(SSEHandler(RouteSSEServer(1)))
====
